---------------------------- MODULE Spec2Model ----------------------------
(* Verification model of resume-tailor's quality-assurance feedback loop: *)
(* the Scorer (pkg/scorer), the Fixer (pkg/llm), the Indexer (pkg/rag)    *)
(* and the evaluate -> fix -> re-evaluate orchestration of cmd/generate.  *)
(*                                                                        *)
(* Text is modelled as a sequence of phrases.  A phrase is named by the   *)
(* fix pattern whose regular expression matches it (or "plain" when none  *)
(* does); a pattern's ReplaceAllString rewrites every such phrase into    *)
(* the phrase its replacement template produces.                          *)
EXTENDS Integers, Sequences, FiniteSets, TLC

\* ------------------------------------------------------------------ bounds
\* longest violation list handed to one category function of the Scorer
MaxViolations == 4
\* largest total number of violations in one CalculateScores call
MaxScoreViolations == 4
\* longest accuracy-violation list handed to calculateAccuracyScore
MaxAccViolations == 2
\* largest number of weak-quantification issues
MaxWeakIssues == 21
\* largest number of verified metrics
MaxMetrics == 12
\* number of entries of the applications tree
MaxFiles == 3
\* number of entries of the index file a Retriever reads
MaxIndexed == 3
\* generation attempts in a sequence of attempts
MaxAttempts == 3
\* pieces of the text of a response content block
MaxTextLen == 4
\* start and stopSpinner calls issued on one spinner
MaxSpinnerCalls == 5
\* violations in each list of the Scores ExtractLessons is called with
MaxLessonViolations == 2
\* longest generated draft, in phrases, of a generation attempt
MaxDraftLen == 1
\* largest number of resume and cover-letter violations in a detector response
MaxRespViolations == 1
\* longest draft, in phrases, handed to a direct ApplyFixes call
MaxFixDraftLen == 2
\* longest violation list of an evaluation handed to a direct ApplyFixes call
MaxFixViolations == 1

\* ------------------------------------------------------------ generic helpers
RECURSIVE SeqsUpTo(_, _)
\* all sequences over S of length at most n
SeqsUpTo(S, n) ==
    IF n = 0 THEN {<< >>}
    ELSE LET shorter == SeqsUpTo(S, n - 1)
         IN  shorter \cup {Append(s, x) : s \in {t \in shorter : Len(t) = n - 1}, x \in S}

Min(a, b) == IF a < b THEN a ELSE b

Max(a, b) == IF a > b THEN a ELSE b

\* the elements of a list
Range(s) == {s[i] : i \in 1..Len(s)}

\* ------------------------------------------------------------- rule catalog
\* pkg/scorer rules.go: ScoringRules, name -> (category, severity, weight)
ScoringRules ==
    [ FORBIDDEN_NUMBER_FABRICATION      |-> [Category |-> "anti_fabrication", Severity |-> "critical", Weight |-> 30],
      FORBIDDEN_INDUSTRY_CLAIMS         |-> [Category |-> "anti_fabrication", Severity |-> "critical", Weight |-> 25],
      FORBIDDEN_TECHNICAL_DOMAIN_CLAIMS |-> [Category |-> "anti_fabrication", Severity |-> "critical", Weight |-> 25],
      FORBIDDEN_PATTERN_MATCHING        |-> [Category |-> "anti_fabrication", Severity |-> "critical", Weight |-> 20],
      SKILL_FABRICATION                 |-> [Category |-> "anti_fabrication", Severity |-> "major",    Weight |-> 15],
      WEAK_QUANTIFICATIONS              |-> [Category |-> "anti_fabrication", Severity |-> "minor",    Weight |-> 5],
      COMPANY_DATE_MISMATCH             |-> [Category |-> "accuracy",         Severity |-> "critical", Weight |-> 25],
      ROLE_TITLE_MISMATCH               |-> [Category |-> "accuracy",         Severity |-> "critical", Weight |-> 20],
      YEARS_EXPERIENCE_WRONG            |-> [Category |-> "accuracy",         Severity |-> "critical", Weight |-> 25],
      METRIC_FABRICATION                |-> [Category |-> "accuracy",         Severity |-> "critical", Weight |-> 20],
      TEMPORAL_IMPOSSIBILITY            |-> [Category |-> "accuracy",         Severity |-> "major",    Weight |-> 15],
      POOR_JD_ALIGNMENT                 |-> [Category |-> "quality",          Severity |-> "minor",    Weight |-> 5],
      INAPPROPRIATE_TONE                |-> [Category |-> "quality",          Severity |-> "minor",    Weight |-> 5] ]

\* a rule identifier the detector may report that the catalog does not hold
UnknownRule == "FORBIDDEN_DOMAIN_CLAIM"

\* rag.Violation, reduced to the fields the code reads
Violation(rule, severity, fabricated) ==
    [Rule |-> rule, Severity |-> severity, Fabricated |-> fabricated]

\* the rule identifiers the Scorer is exercised with: every weight and
\* every category of the catalog, and an identifier outside it
RuleInputs ==
    { "FORBIDDEN_NUMBER_FABRICATION", "SKILL_FABRICATION", "WEAK_QUANTIFICATIONS",
      "COMPANY_DATE_MISMATCH", "POOR_JD_ALIGNMENT", UnknownRule }

\* the rule identifiers used where three lists are drawn at once
RuleInputsSmall ==
    { "FORBIDDEN_NUMBER_FABRICATION", "COMPANY_DATE_MISMATCH", UnknownRule }

SeverityOf(rule) ==
    IF rule \in DOMAIN ScoringRules THEN ScoringRules[rule].Severity ELSE "minor"

ScorerViolation(rule) == Violation(rule, SeverityOf(rule), "text")

\* ------------------------------------------------------------------ Scorer
AllCategories == {"anti_fabrication", "accuracy", "quality"}

RECURSIVE DeductFrom(_, _, _)
\* the loop "for _, v := range violations": subtract the weight of every
\* violation whose rule is in the catalog and passes the category filter
DeductFrom(score, violations, categories) ==
    IF violations = << >> THEN score
    ELSE LET v == Head(violations)
             known == v.Rule \in DOMAIN ScoringRules
             hit == known /\ ScoringRules[v.Rule].Category \in categories
         IN  DeductFrom(IF hit THEN score - ScoringRules[v.Rule].Weight ELSE score,
                        Tail(violations), categories)

\* calculateAntiFabricationScore without the category test of line 297
calculateAntiFabricationScore_AnyCategory(violations) ==
    Max(0, DeductFrom(100, violations, AllCategories))

calculateAntiFabricationScore(violations) ==
    Max(0, DeductFrom(100, violations, {"anti_fabrication"}))

calculateWeakQuantificationsScore(nIssues) ==
    Max(0, 100 - nIssues * ScoringRules["WEAK_QUANTIFICATIONS"].Weight)

\* calculateAccuracyScore without the cap of the metrics bonus (lines 353-355)
calculateAccuracyScore_UncappedBonus(violations, nVerified, companyDatesOK, roleTitlesOK, yearsExpOK) ==
    LET s1 == DeductFrom(100, violations, {"accuracy"})
        s2 == IF companyDatesOK THEN s1 ELSE s1 - ScoringRules["COMPANY_DATE_MISMATCH"].Weight
        s3 == IF roleTitlesOK THEN s2 ELSE s2 - ScoringRules["ROLE_TITLE_MISMATCH"].Weight
        s4 == IF yearsExpOK THEN s3 ELSE s3 - ScoringRules["YEARS_EXPERIENCE_WRONG"].Weight
        s5 == s4 + nVerified
    IN  IF s5 < 0 THEN 0 ELSE IF s5 > 100 THEN 100 ELSE s5

calculateAccuracyScore(violations, nVerified, companyDatesOK, roleTitlesOK, yearsExpOK) ==
    LET s1 == DeductFrom(100, violations, {"accuracy"})
        s2 == IF companyDatesOK THEN s1 ELSE s1 - ScoringRules["COMPANY_DATE_MISMATCH"].Weight
        s3 == IF roleTitlesOK THEN s2 ELSE s2 - ScoringRules["ROLE_TITLE_MISMATCH"].Weight
        s4 == IF yearsExpOK THEN s3 ELSE s3 - ScoringRules["YEARS_EXPERIENCE_WRONG"].Weight
        metricsBonus == IF nVerified > 10 THEN 10 ELSE nVerified
        s5 == s4 + metricsBonus
    IN  IF s5 < 0 THEN 0 ELSE IF s5 > 100 THEN 100 ELSE s5

\* calculateDomainClaimsScore without the clamp at zero (lines 380-382)
calculateDomainClaimsScore_NoClamp(violations) ==
    DeductFrom(100, violations, AllCategories)

calculateDomainClaimsScore(violations) ==
    Max(0, DeductFrom(100, violations, AllCategories))

\* int(float64(a)*0.50 + float64(w)*0.20 + float64(c)*0.30): on the scores
\* the category functions can return (a and w multiples of 5) the IEEE-754
\* double result truncates to the exact quotient
ResumeBlend(a, w, c) == (50 * a + 20 * w + 30 * c) \div 100

\* the inputs on which float64(r)*0.70 + float64(c)*0.30 rounds just below
\* the exact integer value, so that int() yields one less
OverallRoundingLoss == { <<85, 5>>, <<85, 15>>, <<90, 0>> }

\* int(float64(resumeTotal)*0.70 + float64(coverLetterTotal)*0.30)
OverallBlend(r, c) ==
    LET exact == (70 * r + 30 * c) \div 100
    IN  IF <<r, c>> \in OverallRoundingLoss THEN exact - 1 ELSE exact

CalculateScores(antiFabViolations, nWeakIssues, accuracyViolations, domainViolations, nVerified, companyDatesOK, roleTitlesOK, yearsExpOK) ==
    LET antiFabScore == calculateAntiFabricationScore(antiFabViolations)
        weakScore == calculateWeakQuantificationsScore(nWeakIssues)
        accuracyScore == calculateAccuracyScore(accuracyViolations, nVerified,
                                                companyDatesOK, roleTitlesOK, yearsExpOK)
        resumeTotal == ResumeBlend(antiFabScore, weakScore, accuracyScore)
        domainScore == calculateDomainClaimsScore(domainViolations)
        coverLetterTotal == domainScore
        overall == OverallBlend(resumeTotal, coverLetterTotal)
    IN  [ AntiFabrication |-> antiFabScore,
          AntiFabViolations |-> antiFabViolations,
          WeakQuantifications |-> weakScore,
          WeakIssues |-> nWeakIssues,
          Accuracy |-> accuracyScore,
          VerifiedMetrics |-> nVerified,
          CompanyDatesCorrect |-> companyDatesOK,
          RoleTitlesCorrect |-> roleTitlesOK,
          YearsExpCorrect |-> yearsExpOK,
          DomainClaims |-> domainScore,
          DomainViolations |-> domainViolations,
          Tone |-> 100,
          ResumeTotal |-> resumeTotal,
          CoverLetterTotal |-> coverLetterTotal,
          Overall |-> overall ]

RECURSIVE CriticalLessons(_)
\* the loop over scores.Resume.AntiFabrication.Violations
CriticalLessons(violations) ==
    IF violations = << >> THEN << >>
    ELSE LET v == Head(violations)
         IN  IF v.Severity = "critical"
             THEN <<"Fabrication detected: " \o v.Rule \o " - " \o v.Fabricated>>
                      \o CriticalLessons(Tail(violations))
             ELSE CriticalLessons(Tail(violations))

WeakLesson == "Weak quantifications found that undermine credibility"

DomainLesson == "Cover letter made domain claims not supported by achievements"

OverallLesson == "Overall quality below acceptable threshold - multiple issues detected"

\* scores.Overall < 70
BelowThreshold(overall) == overall < 70

ExtractLessons(scores) ==
    CriticalLessons(scores.AntiFabViolations)
        \o (IF scores.WeakIssues > 0 THEN <<WeakLesson>> ELSE << >>)
        \o (IF Len(scores.DomainViolations) > 0 THEN <<DomainLesson>> ELSE << >>)
        \o (IF BelowThreshold(scores.Overall) THEN <<OverallLesson>> ELSE << >>)

\* ------------------------------------------------------------------- Fixer
\* strings.Contains on the rule identifiers and offending texts of the model:
\* the (string, substring) pairs for which it is true
ContainsPairs ==
    { <<"TEMPORAL_IMPOSSIBILITY", "TEMPORAL">>,
      <<"FORBIDDEN_TECHNICAL_DOMAIN_CLAIMS", "DOMAIN">>,
      <<"FORBIDDEN_DOMAIN_CLAIM", "DOMAIN">>,
      <<"DeFi Expert", "Expert">> }

Contains(str, substr) == <<str, substr>> \in ContainsPairs

\* a FixPattern: Rewrites maps each phrase the regular expression matches to
\* the phrase ReplaceAllString leaves in its place
FixPattern(name, rewrites, ruleMatch) ==
    [Name |-> name, Rewrites |-> rewrites, RuleMatch |-> ruleMatch]

buildTemporalImpossibilityPatterns ==
    << FixPattern("Temporal - building platform engineering",
                  [p \in {"25y building platform engineering"} |-> "25y in software engineering, expertise in platform engineering"],
                  "TEMPORAL_IMPOSSIBILITY"),
       FixPattern("Temporal - building AWS/cloud",
                  [p \in {"25y building AWS"} |-> "25y in distributed systems, expertise in AWS"],
                  "TEMPORAL_IMPOSSIBILITY"),
       FixPattern("Temporal - building Kubernetes",
                  [p \in {"25y building Kubernetes"} |-> "25y in platform engineering, extensive Kubernetes"],
                  "TEMPORAL_IMPOSSIBILITY"),
       FixPattern("Temporal - SRE/DevOps",
                  [p \in {"25y of SRE"} |-> "25y in operational excellence, deep SRE expertise"],
                  "TEMPORAL_IMPOSSIBILITY"),
       FixPattern("Temporal - AI-powered",
                  [p \in {"25y building AI-powered"} |-> "25y in system architecture, expertise in AI-powered"],
                  "TEMPORAL_IMPOSSIBILITY"),
       FixPattern("Temporal - DeFi/Blockchain",
                  [p \in {"25y building DeFi"} |-> "25y in distributed systems, infrastructure for DeFi"],
                  "TEMPORAL_IMPOSSIBILITY"),
       FixPattern("Temporal - general tech prefix",
                  [p \in {"25y building scalable AWS"} |-> "25y in scalable systems, expertise in AWS"],
                  "TEMPORAL_IMPOSSIBILITY") >>

buildDomainExpertPatterns ==
    << FixPattern("DeFi/Crypto Expert (any combination) -> Infrastructure Architect",
                  [p \in {"DeFi Expert specializing in X"} |-> "Infrastructure Architect specializing in Kubernetes and X"],
                  "FORBIDDEN_DOMAIN_CLAIM"),
       FixPattern("DeFi/Crypto Expert (any combo, no specializing) -> Infrastructure Architect",
                  [p \in {"DeFi Expert specializing in X", "DeFi Expert"} |->
                      IF p = "DeFi Expert" THEN "Infrastructure Architect"
                      ELSE "Infrastructure Architect specializing in X"],
                  "FORBIDDEN_DOMAIN_CLAIM"),
       FixPattern("Domain Expert (specific domains) -> Infrastructure role",
                  [p \in {"Gaming Expert"} |-> "Infrastructure Architect with experience in Gaming platforms"],
                  "FORBIDDEN_DOMAIN_CLAIM") >>

buildCoverLetterPatterns ==
    << FixPattern("Targeted resume wording",
                  [p \in {"This is a targeted resume highlighting"} |-> "The resume submitted for this role highlights"],
                  "COVER_LETTER_WORDING"),
       FixPattern("Weak quantification - 5 continents",
                  [p \in {"across 5 continents"} |-> "across North America, South America, Europe, Africa, and India"],
                  "WEAK_QUANTIFICATION"),
       FixPattern("Weak quantification - 7 clusters",
                  [p \in {"events daily across 7 distributed clusters"} |-> "events daily across multi-cluster distributed infrastructure"],
                  "WEAK_QUANTIFICATION") >>

\* pattern.Pattern.MatchString(content)
MatchString(pattern, content) ==
    \E i \in 1..Len(content) : content[i] \in DOMAIN pattern.Rewrites

\* pattern.Pattern.ReplaceAllString(content, pattern.Replacement)
ReplaceAllString(pattern, content) ==
    [i \in 1..Len(content) |->
        IF content[i] \in DOMAIN pattern.Rewrites THEN pattern.Rewrites[content[i]]
        ELSE content[i]]

RECURSIVE ApplyPatterns(_, _, _)
\* the loop "for _, pattern := range patterns" shared by applyTemporalFixes,
\* applyDomainExpertFixes and applyCoverLetterWording
ApplyPatterns(patterns, content, applied) ==
    IF patterns = << >> THEN [fixed |-> content, applied |-> applied]
    ELSE IF MatchString(Head(patterns), content)
         THEN ApplyPatterns(Tail(patterns), ReplaceAllString(Head(patterns), content), TRUE)
         ELSE ApplyPatterns(Tail(patterns), content, applied)

applyTemporalFixes(content) == ApplyPatterns(buildTemporalImpossibilityPatterns, content, FALSE)

applyDomainExpertFixes(content) == ApplyPatterns(buildDomainExpertPatterns, content, FALSE)

applyCoverLetterWording(content) == ApplyPatterns(buildCoverLetterPatterns, content, FALSE).fixed

\* fmt.Sprintf("Fixed temporal impossibility: %s", violation.Fabricated)
TemporalLabel(violation) == <<"Fixed temporal impossibility: ", violation.Fabricated>>

\* fmt.Sprintf("Fixed domain expert claim: %s", violation.Fabricated)
DomainExpertLabel(violation) == <<"Fixed domain expert claim: ", violation.Fabricated>>

\* the first loop without its test of the rule name
TriggersTemporal_Always(violation) == TRUE

TriggersTemporal(violation) == Contains(violation.Rule, "TEMPORAL")

TriggersDomainExpert(violation) ==
    Contains(violation.Rule, "DOMAIN") \/ Contains(violation.Fabricated, "Expert")

RECURSIVE TemporalLoop(_, _, _)
\* fixResumeViolations, first loop
TemporalLoop(violations, fixed, fixes) ==
    IF violations = << >> THEN [fixed |-> fixed, fixes |-> fixes]
    ELSE LET v == Head(violations)
             r == applyTemporalFixes(fixed)
         IN  IF TriggersTemporal(v)
             THEN TemporalLoop(Tail(violations), r.fixed,
                               IF r.applied THEN Append(fixes, TemporalLabel(v)) ELSE fixes)
             ELSE TemporalLoop(Tail(violations), fixed, fixes)

RECURSIVE DomainExpertLoop(_, _, _)
\* fixResumeViolations, second loop; fixCoverLetterViolations drops the labels
DomainExpertLoop(violations, fixed, fixes) ==
    IF violations = << >> THEN [fixed |-> fixed, fixes |-> fixes]
    ELSE LET v == Head(violations)
             r == applyDomainExpertFixes(fixed)
         IN  IF TriggersDomainExpert(v)
             THEN DomainExpertLoop(Tail(violations), r.fixed,
                                   IF r.applied THEN Append(fixes, DomainExpertLabel(v)) ELSE fixes)
             ELSE DomainExpertLoop(Tail(violations), fixed, fixes)

fixResumeViolations(resume, evalResp, appliedFixes) ==
    LET t == TemporalLoop(evalResp.ResumeViolations, resume, appliedFixes)
        d == DomainExpertLoop(evalResp.ResumeViolations, t.fixed, t.fixes)
    IN  [fixed |-> applyCoverLetterWording(d.fixed), fixes |-> d.fixes]

fixCoverLetterViolations(coverLetter, evalResp) ==
    LET d == DomainExpertLoop(evalResp.CoverLetterViolations, coverLetter, << >>)
    IN  applyCoverLetterWording(d.fixed)

ApplyFixes(resumeMD, coverLetterMD, evalResp) ==
    LET r == fixResumeViolations(resumeMD, evalResp, << >>)
    IN  [ fixedResume |-> r.fixed,
          fixedCoverLetter |-> fixCoverLetterViolations(coverLetterMD, evalResp),
          appliedFixes |-> r.fixes ]

\* ------------------------------------------------- detector responses, drafts
\* llm.EvaluationResponse; the weak-quantification issues and the verified
\* metrics are kept as their number
EvaluationResponse(resumeViolations, nWeak, accuracyViolations, coverLetterViolations, nVerified, companyDatesCorrect, roleTitlesCorrect, yearsExpCorrect, lessonsLearned) ==
    [ ResumeViolations |-> resumeViolations,
      WeakQuantifications |-> nWeak,
      AccuracyViolations |-> accuracyViolations,
      CoverLetterViolations |-> coverLetterViolations,
      VerifiedMetrics |-> nVerified,
      CompanyDatesCorrect |-> companyDatesCorrect,
      RoleTitlesCorrect |-> roleTitlesCorrect,
      YearsExpCorrect |-> yearsExpCorrect,
      LessonsLearned |-> lessonsLearned ]

\* the zero value of llm.EvaluationResponse
ZeroEvaluationResponse ==
    EvaluationResponse(<< >>, 0, << >>, << >>, 0, FALSE, FALSE, FALSE, << >>)

\* the violations the detector reports in the model: one that triggers the
\* temporal patterns, one that triggers the positioning patterns by its rule,
\* one that triggers them by its text, one that triggers nothing
DetectorViolations ==
    { Violation("FORBIDDEN_NUMBER_FABRICATION", "critical", "40% cost reduction"),
      Violation("TEMPORAL_IMPOSSIBILITY", "major", "25+ years building AWS"),
      Violation("FORBIDDEN_TECHNICAL_DOMAIN_CLAIMS", "critical", "satellite imagery"),
      Violation("SKILL_FABRICATION", "minor", "DeFi Expert") }

\* the phrases drafts are made of: plain text and one phrase per library
DraftPhrases ==
    { "plain text", "25y building AWS", "DeFi Expert",
      "This is a targeted resume highlighting" }

Drafts(n) == SeqsUpTo(DraftPhrases, n)

\* ----------------------------------------------------------------- Indexer
\* the lower-cased keywords of inferIndustry and inferRoleLevel that each
\* company name and role title of the model contains
KeywordsIn ==
    [ s \in {"First Capital Bank",
              "First Capital Bank Inc",
              "Acme Corp",
              "Director of Engineering",
              "Senior Platform Engineer",
              "Chief Technology Officer",
              "CTO",
              "VP of Engineering",
              "Vice President, Platform",
              "Principal Engineer",
              "Sr. DevOps Engineer",
              "Staff Engineer",
              "Tech Lead",
              "Platform Engineer"} |->
        CASE s = "First Capital Bank"         -> {"bank", "capital"}
          [] s = "First Capital Bank Inc"     -> {"bank", "capital"}
          [] s = "Acme Corp"                  -> {}
          [] s = "Director of Engineering"    -> {"cto", "director"}
          [] s = "Senior Platform Engineer"   -> {"senior"}
          [] s = "Chief Technology Officer"   -> {"tech", "chief"}
          [] s = "CTO"                        -> {"cto"}
          [] s = "VP of Engineering"          -> {"vp"}
          [] s = "Vice President, Platform"   -> {"vice president"}
          [] s = "Principal Engineer"         -> {"principal"}
          [] s = "Sr. DevOps Engineer"        -> {"sr"}
          [] s = "Staff Engineer"             -> {"staff"}
          [] s = "Tech Lead"                  -> {"tech", "lead"}
          [] s = "Platform Engineer"          -> {} ]

\* strings.Contains(strings.ToLower(str), keyword)
LowerContains(str, keyword) == keyword \in KeywordsIn[str]

inferIndustry(company) ==
    IF LowerContains(company, "bank") \/ LowerContains(company, "capital") THEN "fintech"
    ELSE IF LowerContains(company, "tech") \/ LowerContains(company, "soft") THEN "technology"
    ELSE IF LowerContains(company, "cloud") \/ LowerContains(company, "aws") THEN "cloud"
    ELSE IF LowerContains(company, "pay") THEN "payments"
    ELSE "unknown"

inferRoleLevel(role) ==
    IF LowerContains(role, "cto") \/ LowerContains(role, "chief") THEN "CTO"
    ELSE IF LowerContains(role, "vp") \/ LowerContains(role, "vice president") THEN "VP"
    ELSE IF LowerContains(role, "director") THEN "Director"
    ELSE IF LowerContains(role, "senior") \/ LowerContains(role, "sr")
            \/ LowerContains(role, "principal") THEN "Senior IC"
    ELSE IF LowerContains(role, "lead") \/ LowerContains(role, "staff") THEN "IC"
    ELSE "IC"

\* the number of violations of the list whose severity is "critical"
CriticalCount(violations) ==
    Cardinality({i \in 1..Len(violations) : violations[i].Severity = "critical"})

\* an entry of the applications tree as filepath.Walk presents it: whether it
\* exists, its name, whether it is a directory, whether os.ReadFile succeeds
\* on it, whether its bytes parse as a rag.Evaluation, and the parsed value
TreeEntry(exists, name, isDir, readable, parses, eval) ==
    [ exists |-> exists, Name |-> name, IsDir |-> isDir,
      readable |-> readable, parses |-> parses, eval |-> eval ]

\* the names entries carry in the model
EvaluationFileName == "company-role.evaluation.json"

MarkdownFileName == "name-company-role-resume.md"

IndexFileName == ".rag-index.json"

\* strings.HasSuffix(name, ".evaluation.json") on those names
HasEvaluationSuffix(name) == name = EvaluationFileName

\* the IndexedEvaluation processEvaluationFile builds (lines 59-90)
IndexedEvaluation(path, eval) ==
    [ Company |-> eval.Company,
      Role |-> eval.Role,
      RoleLevel |-> inferRoleLevel(eval.Role),
      Industry |-> inferIndustry(eval.Company),
      OverallScore |-> eval.Scores.Overall,
      CriticalViolations |-> CriticalCount(eval.Scores.AntiFabViolations)
                             + CriticalCount(eval.Scores.DomainViolations),
      LessonsLearned |-> eval.Lessons,
      RAGContext |-> eval.RAGContext,
      Path |-> path ]

\* processEvaluationFile returning the load error instead of swallowing it
\* (lines 52-57 without "err = nil")
processEvaluationFile_FailOnBadFile(path, entry, walkErr, acc) ==
    IF walkErr THEN [acc EXCEPT !.err = TRUE]
    ELSE IF entry.IsDir \/ ~HasEvaluationSuffix(entry.Name) THEN acc
    ELSE IF ~entry.readable \/ ~entry.parses THEN [acc EXCEPT !.err = TRUE]
    ELSE [acc EXCEPT !.evaluations = Append(@, IndexedEvaluation(path, entry.eval)),
                     !.count = @ + 1]

\* processEvaluationFile: the walk callback for one entry; acc holds the
\* evaluations appended and the count so far, err is what it returns
processEvaluationFile(path, entry, walkErr, acc) ==
    IF walkErr THEN [acc EXCEPT !.err = TRUE]
    ELSE IF entry.IsDir \/ ~HasEvaluationSuffix(entry.Name) THEN acc
    ELSE IF ~entry.readable \/ ~entry.parses THEN acc
    ELSE [acc EXCEPT !.evaluations = Append(@, IndexedEvaluation(path, entry.eval)),
                     !.count = @ + 1]

\* ----------------------------------------------- persistence (cmd/generate)
\* the deduction of calculateResumeScore and calculateCoverLetterScore for
\* one violation
SeverityDeduction(severity) ==
    CASE severity = "critical" -> 30
      [] severity = "major"    -> 15
      [] severity = "minor"    -> 5
      [] OTHER                 -> 0

RECURSIVE DeductSeverities(_, _)
DeductSeverities(score, violations) ==
    IF violations = << >> THEN score
    ELSE DeductSeverities(score - SeverityDeduction(Head(violations).Severity), Tail(violations))

calculateResumeScore(evalResp) == Max(0, DeductSeverities(100, evalResp.ResumeViolations))

calculateCoverLetterScore(evalResp) == Max(0, DeductSeverities(100, evalResp.CoverLetterViolations))

calculateOverallScore(evalResp) ==
    (calculateResumeScore(evalResp) * 7) \div 10 + (calculateCoverLetterScore(evalResp) * 3) \div 10

\* formatRAGContext: the lines of the summary, in the order written
formatRAGContext(evalResp) ==
    LET ViolationLine(section, v) ==
            [Section |-> section, Rule |-> v.Rule, Severity |-> v.Severity, Text |-> v.Fabricated]
    IN  [i \in 1..Len(evalResp.LessonsLearned) |->
            [Section |-> "Lessons Learned", Rule |-> "", Severity |-> "",
             Text |-> evalResp.LessonsLearned[i]]]
        \o [i \in 1..Len(evalResp.ResumeViolations) |->
            ViolationLine("Resume Violations", evalResp.ResumeViolations[i])]
        \o [i \in 1..Len(evalResp.CoverLetterViolations) |->
            ViolationLine("Cover Letter Violations", evalResp.CoverLetterViolations[i])]

\* the rag.Evaluation record saveEvaluationToRAG builds (lines 708-749)
BuildEvaluation(company, role, evalResp) ==
    [ Company |-> company,
      Role |-> role,
      Scores |->
        [ ResumeTotal |-> calculateResumeScore(evalResp),
          AntiFabrication |-> Len(evalResp.ResumeViolations),
          AntiFabViolations |-> evalResp.ResumeViolations,
          WeakQuantifications |-> evalResp.WeakQuantifications,
          WeakIssues |-> evalResp.WeakQuantifications,
          Accuracy |-> 100,
          VerifiedMetrics |-> evalResp.VerifiedMetrics,
          CompanyDatesCorrect |-> evalResp.CompanyDatesCorrect,
          RoleTitlesCorrect |-> evalResp.RoleTitlesCorrect,
          YearsExpCorrect |-> evalResp.YearsExpCorrect,
          CoverLetterTotal |-> calculateCoverLetterScore(evalResp),
          DomainClaims |-> Len(evalResp.CoverLetterViolations),
          DomainViolations |-> evalResp.CoverLetterViolations,
          Tone |-> 100,
          Overall |-> calculateOverallScore(evalResp) ],
      Lessons |-> evalResp.LessonsLearned,
      RAGContext |-> formatRAGContext(evalResp),
      Version |-> "1.0.0" ]

NoEvaluation == BuildEvaluation("", "", ZeroEvaluationResponse)

\* an absent entry of the tree
AbsentEntry == TreeEntry(FALSE, "", FALSE, FALSE, FALSE, NoEvaluation)

\* a directory, or a file whose name lacks the .evaluation.json suffix
OtherEntry(isDir) ==
    TreeEntry(TRUE, IF isDir THEN "company" ELSE MarkdownFileName, isDir, TRUE, FALSE, NoEvaluation)

\* an .evaluation.json file holding the evaluation
EvaluationEntry(eval) == TreeEntry(TRUE, EvaluationFileName, FALSE, TRUE, TRUE, eval)

\* an .evaluation.json file whose bytes do not parse
CorruptEntry == TreeEntry(TRUE, EvaluationFileName, FALSE, TRUE, FALSE, NoEvaluation)

\* an .evaluation.json file os.ReadFile cannot read
UnreadableEntry == TreeEntry(TRUE, EvaluationFileName, FALSE, FALSE, FALSE, NoEvaluation)

\* ------------------------------------------------------- Indexer.Index
RECURSIVE WalkFrom(_, _, _, _)
\* filepath.Walk over the entries path..MaxFiles in lexical order; faultAt is
\* the path at which Walk itself reports an error to the callback (0: none)
WalkFrom(path, tree, faultAt, acc) ==
    IF path > Len(tree) \/ acc.err THEN acc
    ELSE IF ~tree[path].exists /\ faultAt # path THEN WalkFrom(path + 1, tree, faultAt, acc)
    ELSE WalkFrom(path + 1, tree, faultAt,
                  processEvaluationFile(path, tree[path], faultAt = path, acc))

\* the index file as LoadIndex finds it: absent, unparseable, or an
\* EvaluationIndex holding the listed evaluations
IndexFile(exists, parses, evaluations) ==
    [exists |-> exists, parses |-> parses, Evaluations |-> evaluations, Version |-> "1.0.0"]

NoIndexFile == IndexFile(FALSE, FALSE, << >>)

TornIndexFile == IndexFile(TRUE, FALSE, << >>)

\* the entry Walk presents for the index file, which lies under the root
IndexEntry(indexFile) ==
    TreeEntry(indexFile.exists, IndexFileName, FALSE, TRUE, FALSE, NoEvaluation)

\* Index appending to the entries of the index file it finds instead of
\* starting from an empty list (line 100)
Index_Append(tree, indexFile, walkFault, writeFault) ==
    LET start == processEvaluationFile(0, IndexEntry(indexFile), FALSE,
                                       [evaluations |-> indexFile.Evaluations, count |-> 0,
                                        err |-> FALSE])
        walked == WalkFrom(1, tree, walkFault, start)
    IN  IF walked.err
        THEN [count |-> walked.count, err |-> "failed to walk applications directory",
              indexFile |-> indexFile]
        ELSE IF writeFault # "none"
        THEN [count |-> walked.count, err |-> "failed to write index",
              indexFile |-> IF writeFault = "torn" THEN TornIndexFile ELSE indexFile]
        ELSE [count |-> walked.count, err |-> "nil",
              indexFile |-> IndexFile(TRUE, TRUE, walked.evaluations)]

\* Indexer.Index: walk, build, write.  walkFault is the path at which the
\* walk fails (0: nowhere), writeFault how os.WriteFile of the index fails
\* ("none", "refused": file untouched, "torn": file truncated)
Index(tree, indexFile, walkFault, writeFault) ==
    LET start == processEvaluationFile(0, IndexEntry(indexFile), FALSE,
                                       [evaluations |-> << >>, count |-> 0, err |-> FALSE])
        walked == WalkFrom(1, tree, walkFault, start)
    IN  IF walked.err
        THEN [count |-> walked.count, err |-> "failed to walk applications directory",
              indexFile |-> indexFile]
        ELSE IF writeFault # "none"
        THEN [count |-> walked.count, err |-> "failed to write index",
              indexFile |-> IF writeFault = "torn" THEN TornIndexFile ELSE indexFile]
        ELSE [count |-> walked.count, err |-> "nil",
              indexFile |-> IndexFile(TRUE, TRUE, walked.evaluations)]

\* ------------------------------------------- saveEvaluationToRAG (cmd/generate)
\* sanitizeFilename on the company names and role titles of the model: the
\* company suffix trimmed, lower case, every other character a hyphen,
\* runs of hyphens collapsed, hyphens trimmed from the ends
sanitizeFilename ==
    [ s \in {"First Capital Bank", "First Capital Bank Inc", "Acme Corp",
              "Director of Engineering", "Senior Platform Engineer", "Staff Engineer"} |->
        CASE s = "First Capital Bank"       -> "first-capital-bank"
          [] s = "First Capital Bank Inc"   -> "first-capital-bank"
          [] s = "Acme Corp"                -> "acme"
          [] s = "Director of Engineering"  -> "director-of-engineering"
          [] s = "Senior Platform Engineer" -> "senior-platform-engineer"
          [] s = "Staff Engineer"           -> "staff-engineer" ]

\* the evalFilename of line 752, relative to the base output directory: the
\* directory of the drafts (createCompanyOutputDir) and the file name
evalFilename(company, role) ==
    sanitizeFilename[company] \o "/" \o sanitizeFilename[company] \o "-"
        \o sanitizeFilename[role] \o ".evaluation.json"

\* the evaluation files of the tree, in the lexical order of filepath.Walk
TreeFilenames ==
    << "first-capital-bank/first-capital-bank-director-of-engineering.evaluation.json",
       "first-capital-bank/first-capital-bank-senior-platform-engineer.evaluation.json",
       "first-capital-bank/first-capital-bank-staff-engineer.evaluation.json" >>

\* the entry of the tree at which a file name lies
EvaluationPath(company, role) ==
    CHOOSE p \in 1..Len(TreeFilenames) : TreeFilenames[p] = evalFilename(company, role)

\* saveEvaluationToRAG: build the record, os.WriteFile it at evalFilename,
\* rebuild the index.  fault.file is how the write fails ("none", "refused":
\* file untouched, "torn": file truncated), fault.index the faults of Index
saveEvaluationToRAG(applications, index, company, role, evalResp, fault) ==
    LET evaluation == BuildEvaluation(company, role, evalResp)
        path == EvaluationPath(company, role)
        stored == [applications EXCEPT ![path] = EvaluationEntry(evaluation)]
        r == Index(stored, index, fault.index.walk, fault.index.write)
    IN  IF fault.file # "none"
        THEN [ tree |-> IF fault.file = "torn"
                        THEN [applications EXCEPT ![path] = CorruptEntry]
                        ELSE applications,
               indexFile |-> index, indexed |-> FALSE,
               err |-> "failed to write evaluation file" ]
        ELSE [ tree |-> stored, indexFile |-> r.indexFile, indexed |-> TRUE, err |-> r.err ]

\* --------------------------------------------------------------- Retriever
\* LoadIndex without the os.IsNotExist branch (lines 223-232)
LoadIndex_MissingIsError(file, readFault) ==
    IF ~file.exists \/ readFault
    THEN [Evaluations |-> << >>, err |-> "failed to read index file"]
    ELSE IF ~file.parses THEN [Evaluations |-> << >>, err |-> "failed to parse index JSON"]
    ELSE [Evaluations |-> file.Evaluations, err |-> "nil"]

\* Indexer.LoadIndex: the index read from the index file.  readFault says
\* that os.ReadFile fails on an existing file (permissions, I/O error)
LoadIndex(file, readFault) ==
    IF ~file.exists THEN [Evaluations |-> << >>, err |-> "nil"]
    ELSE IF readFault THEN [Evaluations |-> << >>, err |-> "failed to read index file"]
    ELSE IF ~file.parses THEN [Evaluations |-> << >>, err |-> "failed to parse index JSON"]
    ELSE [Evaluations |-> file.Evaluations, err |-> "nil"]

\* calculateSimilarity with the role-level bonus left out (lines 55-57)
calculateSimilarity_NoRoleLevel(eval, roleLevel) ==
    (IF eval.OverallScore < 80 THEN 3 ELSE 0)
    + (IF eval.CriticalViolations > 0 THEN 4 ELSE 0)

\* calculateSimilarity, in tenths: the float64 sums 0.0 + 0.5 + 0.3 + 0.4
\* compare with 0.3 as the integers 5 + 3 + 4 compare with 3
calculateSimilarity(eval, roleLevel) ==
    (IF eval.RoleLevel = roleLevel THEN 5 ELSE 0)
    + (IF eval.OverallScore < 80 THEN 3 ELSE 0)
    + (IF eval.CriticalViolations > 0 THEN 4 ELSE 0)

\* the threshold of line 39, in tenths
SimilarityThreshold == 3

\* lines 36-42 with the test "score >= 0.3"
SimilarEvaluations_NonStrict(evaluations, roleLevel) ==
    SelectSeq(evaluations, LAMBDA e : calculateSimilarity(e, roleLevel) >= SimilarityThreshold)

\* lines 36-42: the indexed evaluations whose similarity exceeds the threshold
SimilarEvaluations(evaluations, roleLevel) ==
    SelectSeq(evaluations, LAMBDA e : calculateSimilarity(e, roleLevel) > SimilarityThreshold)

\* the rule-name tokens buildRAGContext looks for and the labels it counts
\* them under (lines 99-110)
ViolationLabels ==
    [ FORBIDDEN_NUMBER_FABRICATION |-> "Number fabrication (inventing metrics/headcounts)",
      FORBIDDEN_INDUSTRY_CLAIMS |-> "Industry fabrication (claiming industries not in experience)",
      FORBIDDEN_TECHNICAL_DOMAIN_CLAIMS |-> "Domain fabrication (claiming technical domains not in experience)",
      FORBIDDEN_PATTERN_MATCHING |-> "Pattern matching (claiming work 'mirrors' domains candidate lacks)" ]

\* the tokens a free text of the model (a lesson, a fabricated phrase) holds
TokensInText(text) ==
    IF text = "FORBIDDEN_INDUSTRY_CLAIMS: do not claim fintech" THEN {"FORBIDDEN_INDUSTRY_CLAIMS"}
    ELSE {}

\* strings.Contains(eval.RAGContext, token): the serialized text holds the
\* token as the rule of a violation line or inside a lesson or phrase
RAGContextContains(ragContext, token) ==
    \E i \in 1..Len(ragContext) :
        \/ ragContext[i].Rule = token
        \/ token \in TokensInText(ragContext[i].Text)

\* violationMap counting every line that holds the token instead of every
\* record (lines 99-110 run per line)
violationMap_PerLine(similar) ==
    { [Label |-> ViolationLabels[t],
       Count |-> Cardinality({ij \in (1..Len(similar)) \X (1..4) :
                                 /\ ij[2] <= Len(similar[ij[1]].RAGContext)
                                 /\ RAGContextContains(<<similar[ij[1]].RAGContext[ij[2]]>>, t)})] :
        t \in {u \in DOMAIN ViolationLabels :
                  \E i \in 1..Len(similar) : RAGContextContains(similar[i].RAGContext, u)} }

\* violationMap after the loop of lines 89-117, as the set of its entries
violationMap(similar) ==
    { [Label |-> ViolationLabels[t],
       Count |-> Cardinality({i \in 1..Len(similar) : RAGContextContains(similar[i].RAGContext, t)})] :
        t \in {u \in DOMAIN ViolationLabels :
                  \E i \in 1..Len(similar) : RAGContextContains(similar[i].RAGContext, u)} }

RECURSIVE Orderings(_)
\* the orders in which "range" over a Go map may present its entries
Orderings(entries) ==
    IF entries = {} THEN {<< >>}
    ELSE UNION { {<<e>> \o rest : rest \in Orderings(entries \ {e})} : e \in entries }

RECURSIVE Dedup(_, _)
\* lines 91-96 over a list of lessons: append those not yet present
Dedup(lessons, seen) ==
    IF lessons = << >> THEN seen
    ELSE Dedup(Tail(lessons),
               IF \E i \in 1..Len(seen) : seen[i] = Head(lessons)
               THEN seen ELSE Append(seen, Head(lessons)))

RECURSIVE RelevantLessons(_, _)
RelevantLessons(similar, seen) ==
    IF similar = << >> THEN seen
    ELSE RelevantLessons(Tail(similar), Dedup(Head(similar).LessonsLearned, seen))

\* lines 113-116: one pattern per similar record scoring 85 or more
SuccessfulPatterns(similar) ==
    LET high == SelectSeq(similar, LAMBDA e : e.OverallScore >= 85)
    IN  [i \in 1..Len(high) |-> [Company |-> high[i].Company, Score |-> high[i].OverallScore]]

RAGContext(lessons, violations, patterns, n) ==
    [ RelevantLessons |-> lessons, CommonViolations |-> violations,
      SuccessfulPatterns |-> patterns, SimilarApplications |-> n ]

ZeroRAGContext == RAGContext(<< >>, << >>, << >>, 0)

\* buildRAGContext: the contexts it may return, one per order in which the
\* map of lines 120-123 is ranged over
buildRAGContext(similar) ==
    { RAGContext(RelevantLessons(similar, << >>), order, SuccessfulPatterns(similar), 0) :
        order \in Orderings(violationMap(similar)) }

\* Retriever.Retrieve: the results it may return
Retrieve(file, readFault, role) ==
    LET index == LoadIndex(file, readFault)
        similar == SimilarEvaluations(index.Evaluations, inferRoleLevel(role))
    IN  IF index.err # "nil"
        THEN { [ragCtx |-> ZeroRAGContext, err |-> "failed to load index"] }
        ELSE { [ragCtx |-> [c EXCEPT !.SimilarApplications = Len(similar)], err |-> "nil"] :
                 c \in buildRAGContext(similar) }

\* a line of the text FormatForPrompt builds
PromptLine(format, text, number) == [Format |-> format, Text |-> text, Number |-> number]

NoDataText == <<PromptLine("No previous evaluation data available.", "", 0)>>

\* one section of lines 148-170: nothing for an empty list, else a heading,
\* one "- ..." line per element and an empty line
PromptSection(heading, lines) ==
    IF lines = << >> THEN << >>
    ELSE <<PromptLine(heading, "", 0)>> \o lines \o <<PromptLine("", "", 0)>>

\* FormatForPrompt with the test of line 141 on the lists instead of the count
FormatForPrompt_EmptyLists(ctx) ==
    IF ctx.CommonViolations = << >> /\ ctx.RelevantLessons = << >> /\ ctx.SuccessfulPatterns = << >>
    THEN NoDataText
    ELSE <<PromptLine("**LEARNING FROM %d PREVIOUS APPLICATIONS:**", "", ctx.SimilarApplications),
           PromptLine("", "", 0)>>
         \o PromptSection("**COMMON VIOLATIONS TO AVOID:**",
                [i \in 1..Len(ctx.CommonViolations) |->
                    PromptLine("- %s (occurred %d times)", ctx.CommonViolations[i].Label,
                               ctx.CommonViolations[i].Count)])
         \o PromptSection("**LESSONS LEARNED:**",
                [i \in 1..Len(ctx.RelevantLessons) |-> PromptLine("- %s", ctx.RelevantLessons[i], 0)])
         \o PromptSection("**SUCCESSFUL PATTERNS:**",
                [i \in 1..Len(ctx.SuccessfulPatterns) |->
                    PromptLine("- %s application scored %d - good example",
                               ctx.SuccessfulPatterns[i].Company, ctx.SuccessfulPatterns[i].Score)])

\* Retriever.FormatForPrompt
FormatForPrompt(ctx) ==
    IF ctx.SimilarApplications = 0 THEN NoDataText
    ELSE <<PromptLine("**LEARNING FROM %d PREVIOUS APPLICATIONS:**", "", ctx.SimilarApplications),
           PromptLine("", "", 0)>>
         \o PromptSection("**COMMON VIOLATIONS TO AVOID:**",
                [i \in 1..Len(ctx.CommonViolations) |->
                    PromptLine("- %s (occurred %d times)", ctx.CommonViolations[i].Label,
                               ctx.CommonViolations[i].Count)])
         \o PromptSection("**LESSONS LEARNED:**",
                [i \in 1..Len(ctx.RelevantLessons) |-> PromptLine("- %s", ctx.RelevantLessons[i], 0)])
         \o PromptSection("**SUCCESSFUL PATTERNS:**",
                [i \in 1..Len(ctx.SuccessfulPatterns) |->
                    PromptLine("- %s application scored %d - good example",
                               ctx.SuccessfulPatterns[i].Company, ctx.SuccessfulPatterns[i].Score)])

\* ------------------------------------------------ llm.Client and Evaluator
\* the text of a content block is a sequence of pieces: commentary (no brace,
\* no backquote, no white space at its end), a JSON object of the response
\* type, a JSON object with a field of another type, a JSON object cut
\* short, the opening fence, the closing fence, a newline, a space.  In the
\* strings <fence> stands for the three backquotes and the quotes of the
\* JSON texts are left out
Commentary == "Here is the JSON:"

ValidObject == "{resume: text}"

WrongTypeObject == "{resume: 1}"

TruncatedObject == "{resume:"

Fence == "<fence>json"

FenceEnd == "<fence>"

Newline == "\n"

Space == " "

TextPieces ==
    {Commentary, ValidObject, WrongTypeObject, TruncatedObject, Fence, FenceEnd, Newline, Space}

\* the pieces that start with '{'; no other piece holds one
BracePieces == {ValidObject, WrongTypeObject, TruncatedObject}

\* '\n' and ' ' ('\r' does not occur in the texts of the model)
WhitespacePieces == {Newline, Space}

\* the index of the first piece of the text that is in the set, 0 if none
FirstIn(text, pieces) ==
    IF \E i \in 1..Len(text) : text[i] \in pieces
    THEN CHOOSE i \in 1..Len(text) : text[i] \in pieces /\ \A j \in 1..(i - 1) : text[j] \notin pieces
    ELSE 0

RECURSIVE TrimRight(_, _)
\* lines 239-241: end moved left over trailing '\n', ' ' and '\r'
TrimRight(text, end) ==
    IF end > 0 /\ text[end] \in WhitespacePieces THEN TrimRight(text, end - 1) ELSE end

\* stripMarkdownCodeFences.  cleaned[start:end] with start > end is a
\* run-time panic (slice bounds out of range): start is past the end when no
\* newline follows the fence, and end is before start when only white space
\* (and the closing fence) follows that newline
stripMarkdownCodeFences(text) ==
    LET codeBlockStart == FirstIn(text, {Fence})
        jsonStart == FirstIn(text, BracePieces)
        cleaned == IF codeBlockStart > 0 THEN SubSeq(text, codeBlockStart, Len(text))
                   ELSE IF jsonStart > 1 THEN SubSeq(text, jsonStart, Len(text))
                   ELSE text
    IN  IF Len(cleaned) > 1 /\ cleaned[1] = Fence
        THEN LET newline == FirstIn(Tail(cleaned), {Newline})
                 start == newline + 2
                 fenceEnd == IF cleaned[Len(cleaned)] = FenceEnd THEN Len(cleaned) - 1
                             ELSE Len(cleaned)
                 end == TrimRight(cleaned, fenceEnd)
             IN  IF newline = 0 \/ end < start
                 THEN [cleaned |-> << >>, panic |-> TRUE]
                 ELSE [cleaned |-> SubSeq(cleaned, start, end), panic |-> FALSE]
        ELSE [cleaned |-> cleaned, panic |-> FALSE]

RECURSIVE TrimLeft(_)
\* a text without its leading white space
TrimLeft(text) ==
    IF text # << >> /\ Head(text) \in WhitespacePieces THEN TrimLeft(Tail(text)) ELSE text

\* json.Unmarshal of a text into the response struct: "syntax" when the text
\* is not one JSON value between white space, "type" when the object has a
\* field of another type
Unmarshal(text) ==
    LET value == TrimLeft(SubSeq(text, 1, TrimRight(text, Len(text))))
    IN  IF value = <<ValidObject>> THEN "nil"
        ELSE IF value = <<WrongTypeObject>> THEN "type"
        ELSE "syntax"

\* what a call meets on the wire: the context cancelled or timed out before
\* the response ("cancelled"), a transport failure ("transport"), the body
\* cut while read ("body"), or a response with its status, whether its body
\* parses as a ClaudeResponse, and the texts of its content blocks
Exchange(fault, status, envelope, content) ==
    [fault |-> fault, status |-> status, envelope |-> envelope, content |-> content]

\* Client.sendRequest from httpClient.Do on
sendRequest(exchange) ==
    IF exchange.fault \in {"cancelled", "transport"}
    THEN [responseText |-> << >>, err |-> "HTTP request failed"]
    ELSE IF exchange.fault = "body"
    THEN [responseText |-> << >>, err |-> "failed to read response body"]
    ELSE IF exchange.status # 200
    THEN [responseText |-> << >>, err |-> "API request failed with status"]
    ELSE IF ~exchange.envelope
    THEN [responseText |-> << >>, err |-> "failed to parse Claude response"]
    ELSE IF Len(exchange.content) = 0
    THEN [responseText |-> << >>, err |-> "no content in Claude response"]
    ELSE [responseText |-> exchange.content[1], err |-> "nil"]

\* Evaluator.callClaude from httpClient.Do on
callClaude(exchange) ==
    IF exchange.fault \in {"cancelled", "transport"}
    THEN [responseText |-> << >>, err |-> "HTTP request failed"]
    ELSE IF exchange.fault = "body"
    THEN [responseText |-> << >>, err |-> "failed to read response"]
    ELSE IF exchange.status # 200
    THEN [responseText |-> << >>, err |-> "API returned status"]
    ELSE IF ~exchange.envelope
    THEN [responseText |-> << >>, err |-> "failed to parse response"]
    ELSE IF Len(exchange.content) = 0
    THEN [responseText |-> << >>, err |-> "empty response from API"]
    ELSE [responseText |-> exchange.content[1], err |-> "nil"]

\* what a call gives its caller: returned is FALSE when it panicked;
\* decoded tells whether the response holds the fields of the text
CallResult(returned, err, decoded) == [returned |-> returned, err |-> err, decoded |-> decoded]

\* the part the four calls share: the test of the request error, the fence
\* stripping, json.Unmarshal and the test of its error
ParseResponse(request, requestFailed, parseFailed) ==
    IF request.err # "nil" THEN CallResult(TRUE, requestFailed, FALSE)
    ELSE LET stripped == stripMarkdownCodeFences(request.responseText)
         IN  IF stripped.panic THEN CallResult(FALSE, "nil", FALSE)
             ELSE IF Unmarshal(stripped.cleaned) # "nil" THEN CallResult(TRUE, parseFailed, FALSE)
             ELSE CallResult(TRUE, "nil", TRUE)

Analyze(exchange) ==
    ParseResponse(sendRequest(exchange), "analysis request failed",
                  "failed to parse analysis response")

Generate(exchange) ==
    ParseResponse(sendRequest(exchange), "generation request failed",
                  "failed to parse generation response")

GenerateGeneral(exchange) ==
    ParseResponse(sendRequest(exchange), "general resume generation request failed",
                  "failed to parse general resume response")

Evaluate(exchange) ==
    ParseResponse(callClaude(exchange), "failed to call Claude API",
                  "failed to parse evaluation response")

\* ------------------------------------------------------------------- state
VARIABLES
    scFn,       \* the Scorer function of the last call ("none" before any)
    scIn,       \* its arguments
    scOut,      \* its result
    fxCalled,   \* whether ApplyFixes has been called directly
    fxIn,       \* its arguments: resume, cover letter, evaluation
    fxOut,      \* its results: fixedResume, fixedCoverLetter, appliedFixes
    tree,       \* the applications tree: the entries Walk visits, in order
    indexFile,  \* the file .rag-index.json under the root of the tree
    idxCalled,  \* whether Indexer.Index has been called directly
    idxOut,     \* its results: count and err
    idxFault,   \* the I/O faults that call met: walk (path, 0 none), write
    idxPrev,    \* history: the index file as that call found it
    pc,         \* position of runGenerate: retrieve, generate, evaluate, fix, evaluate2, save, render, done
    autoFix,    \* the --auto-fix flag
    resumeMD,   \* content of the resume draft file
    coverMD,    \* content of the cover-letter draft file
    evalResp,   \* runHybridEvaluationAndFix: result of Evaluate#1, until Fix is over
    finalEval,  \* the evaluation runEvaluationPhase returns
    evalErr,    \* the error runEvaluationPhase saw and reported as a warning
    ragErr,     \* the error saveEvaluationToRAG returned
    result,     \* the error runGenerate returns
    rendered,   \* whether renderPDFs has run
    lastCall,   \* history: the last detector call, what it read and returned
    detectorCalls, \* history: number of detector calls of the attempt
    firstClean, \* history: the first detector call succeeded with no violations
    fixOut,     \* history: whether ApplyFixes ran and what it returned
    draftWrites, \* history: number of writes to the draft files after generation
    indexRuns,  \* history: number of Index runs of the attempt
    ragPrompt,  \* runGenerate: the text retrieval leaves for the generation prompt
    retrieveErr, \* history: the error retrieveRAGContext returned
    genCall,    \* history: whether runGenerationPhase ran and the RAG context it was given
    rtFn,       \* the Retriever or Indexer read function in progress, "none" if none
    rtIn,       \* its arguments and the read fault it meets
    rtOut,      \* what it returned
    rtAgain,    \* history: what a second run with the same arguments returned
    runs,       \* history: the attempts of a sequence that reached saveEvaluationToRAG
    clFn,       \* the Client or Evaluator call in progress, "none" if none
    clIn,       \* the exchange it meets
    clOut,      \* what it gave its caller
    spCaller,   \* where the pipeline is in start or stopSpinner, "idle" between calls
    spActive,   \* spinner.active
    spRoutines, \* the spinner goroutines that have not returned: position and frame counter
    spCalls,    \* history: number of start and stopSpinner calls issued
    spLast,     \* history: the last call that returned, and whether it returned at once
    spLate      \* history: a goroutine wrote to the terminal after stopSpinner returned

scorerVars == <<scFn, scIn, scOut>>

fixerVars == <<fxCalled, fxIn, fxOut>>

storageVars == <<tree, indexFile>>

indexerVars == <<idxCalled, idxOut, idxFault, idxPrev>>

attemptVars ==
    <<pc, autoFix, resumeMD, coverMD, evalResp, finalEval, evalErr, ragErr, result, rendered,
      lastCall, detectorCalls, firstClean, fixOut, draftWrites, indexRuns,
      ragPrompt, retrieveErr, genCall>>

retrieverVars == <<rtFn, rtIn, rtOut, rtAgain>>

sequenceVars == <<runs>>

clientVars == <<clFn, clIn, clOut>>

spinnerVars == <<spCaller, spActive, spRoutines, spCalls, spLast, spLate>>

vars ==
    <<scorerVars, fixerVars, storageVars, indexerVars, attemptVars, retrieverVars, sequenceVars,
      clientVars, spinnerVars>>

\* what the actions of each component leave alone
scorerFrame == <<fixerVars, storageVars, indexerVars, attemptVars, retrieverVars, sequenceVars, clientVars, spinnerVars>>

fixerFrame == <<scorerVars, storageVars, indexerVars, attemptVars, retrieverVars, sequenceVars, clientVars, spinnerVars>>

indexerFrame == <<scorerVars, fixerVars, attemptVars, retrieverVars, sequenceVars, clientVars, spinnerVars>>

attemptFrame == <<scorerVars, fixerVars, indexerVars, retrieverVars, sequenceVars, clientVars, spinnerVars>>

retrieverFrame == <<scorerVars, fixerVars, indexerVars, attemptVars, sequenceVars, clientVars, spinnerVars>>

sequenceFrame == <<scorerVars, fixerVars, indexerVars, attemptVars, retrieverVars, clientVars, spinnerVars>>

clientFrame ==
    <<scorerVars, fixerVars, storageVars, indexerVars, attemptVars, retrieverVars, sequenceVars,
      spinnerVars>>

spinnerFrame ==
    <<scorerVars, fixerVars, storageVars, indexerVars, attemptVars, retrieverVars, sequenceVars,
      clientVars>>

\* ------------------------------------------------------- Scorer, as called
NoViolations == << >>

ScorerArgs(antiFab, weak, accuracy, domain, metrics, datesOK, titlesOK, yearsOK) ==
    [ antiFab |-> antiFab, weak |-> weak, accuracy |-> accuracy, domain |-> domain,
      metrics |-> metrics, datesOK |-> datesOK, titlesOK |-> titlesOK, yearsOK |-> yearsOK ]

NoScorerArgs == ScorerArgs(NoViolations, 0, NoViolations, NoViolations, 0, TRUE, TRUE, TRUE)

ScorerLists(rules, n) == SeqsUpTo({ScorerViolation(r) : r \in rules}, n)

\* no Scorer call in progress
ScorerIdle ==
    /\ scFn = "none"
    /\ scIn = NoScorerArgs
    /\ scOut = [Score |-> 100]

\* a direct call of calculateAntiFabricationScore
CallAntiFabricationScore ==
    /\ scFn = "none"
    /\ \E vs \in ScorerLists(RuleInputs, MaxViolations) :
        /\ scFn' = "calculateAntiFabricationScore"
        /\ scIn' = [NoScorerArgs EXCEPT !.antiFab = vs]
        /\ scOut' = [Score |-> calculateAntiFabricationScore(vs)]
    /\ UNCHANGED scorerFrame

\* a direct call of calculateWeakQuantificationsScore
CallWeakQuantificationsScore ==
    /\ scFn = "none"
    /\ \E n \in 0..MaxWeakIssues :
        /\ scFn' = "calculateWeakQuantificationsScore"
        /\ scIn' = [NoScorerArgs EXCEPT !.weak = n]
        /\ scOut' = [Score |-> calculateWeakQuantificationsScore(n)]
    /\ UNCHANGED scorerFrame

\* a direct call of calculateAccuracyScore
CallAccuracyScore ==
    /\ scFn = "none"
    /\ \E vs \in ScorerLists(RuleInputs, MaxAccViolations), m \in 0..MaxMetrics,
          d \in BOOLEAN, t \in BOOLEAN, y \in BOOLEAN :
        /\ scFn' = "calculateAccuracyScore"
        /\ scIn' = [NoScorerArgs EXCEPT !.accuracy = vs, !.metrics = m,
                                        !.datesOK = d, !.titlesOK = t, !.yearsOK = y]
        /\ scOut' = [Score |-> calculateAccuracyScore(vs, m, d, t, y)]
    /\ UNCHANGED scorerFrame

\* a direct call of calculateDomainClaimsScore
CallDomainClaimsScore ==
    /\ scFn = "none"
    /\ \E vs \in ScorerLists(RuleInputs, MaxViolations) :
        /\ scFn' = "calculateDomainClaimsScore"
        /\ scIn' = [NoScorerArgs EXCEPT !.domain = vs]
        /\ scOut' = [Score |-> calculateDomainClaimsScore(vs)]
    /\ UNCHANGED scorerFrame

\* the numbers of weak issues and of verified metrics CalculateScores is
\* called with: none, one, and the largest
WeakCounts == {0, 1, MaxWeakIssues}

MetricCounts == {0, 1, MaxMetrics}

\* a call of CalculateScores
CallCalculateScores ==
    /\ scFn = "none"
    /\ \E a \in ScorerLists(RuleInputsSmall, MaxScoreViolations) :
       \E c \in ScorerLists(RuleInputsSmall, MaxScoreViolations - Len(a)) :
       \E dm \in ScorerLists(RuleInputsSmall, MaxScoreViolations - Len(a) - Len(c)) :
       \E w \in WeakCounts, m \in MetricCounts,
          d \in BOOLEAN, t \in BOOLEAN, y \in BOOLEAN :
        /\ scFn' = "CalculateScores"
        /\ scIn' = ScorerArgs(a, w, c, dm, m, d, t, y)
        /\ scOut' = CalculateScores(a, w, c, dm, m, d, t, y)
    /\ UNCHANGED scorerFrame

\* the overall scores ExtractLessons is given next to the computed one: the
\* two sides of its threshold
OverallInputs == {69, 70}

\* a call of ExtractLessons on a Scores value: the one CalculateScores
\* returns for the lists, or the same with another overall score
CallExtractLessons ==
    /\ scFn = "none"
    /\ \E a \in SeqsUpTo(DetectorViolations, MaxLessonViolations) :
       \E dm \in SeqsUpTo(DetectorViolations, MaxLessonViolations) :
       \E w \in WeakCounts :
          LET computed == CalculateScores(a, w, << >>, dm, 0, TRUE, TRUE, TRUE)
          IN  \E o \in OverallInputs \cup {computed.Overall} :
                /\ scFn' = "ExtractLessons"
                /\ scIn' = ScorerArgs(a, w, << >>, dm, 0, TRUE, TRUE, TRUE)
                /\ scOut' = [ Scores |-> [computed EXCEPT !.Overall = o],
                              Lessons |-> ExtractLessons([computed EXCEPT !.Overall = o]) ]
    /\ UNCHANGED scorerFrame

\* the caller takes the result; the Scorer keeps no state between calls
ScorerReturn ==
    /\ scFn # "none"
    /\ scFn' = "none"
    /\ scIn' = NoScorerArgs
    /\ scOut' = [Score |-> 100]
    /\ UNCHANGED scorerFrame

ScorerNext ==
    \/ CallAntiFabricationScore
    \/ CallWeakQuantificationsScore
    \/ CallAccuracyScore
    \/ CallDomainClaimsScore
    \/ CallCalculateScores
    \/ CallExtractLessons
    \/ ScorerReturn

\* -------------------------------------------------------- Fixer, as called
NoFixerArgs == [resume |-> << >>, cover |-> << >>, eval |-> ZeroEvaluationResponse]

NoFixerResult == [fixedResume |-> << >>, fixedCoverLetter |-> << >>, appliedFixes |-> << >>]

\* no ApplyFixes call in progress
FixerIdle ==
    /\ fxCalled = FALSE
    /\ fxIn = NoFixerArgs
    /\ fxOut = NoFixerResult

\* the evaluations a direct ApplyFixes call is given: only the two violation
\* lists ApplyFixes reads vary
FixerEvaluations ==
    { EvaluationResponse(rv, 0, << >>, cv, 0, TRUE, TRUE, TRUE, << >>) :
        rv \in SeqsUpTo(DetectorViolations, MaxFixViolations),
        cv \in SeqsUpTo(DetectorViolations, MaxFixViolations) }

\* NewFixer().ApplyFixes(resume, cover, eval)
CallApplyFixes ==
    /\ fxCalled = FALSE
    /\ \E resume \in Drafts(MaxFixDraftLen), cover \in Drafts(MaxFixDraftLen),
          eval \in FixerEvaluations :
          /\ fxCalled' = TRUE
          /\ fxIn' = [resume |-> resume, cover |-> cover, eval |-> eval]
          /\ fxOut' = ApplyFixes(resume, cover, eval)
    /\ UNCHANGED fixerFrame

\* the caller takes the results; the Fixer keeps no state between calls
FixerReturn ==
    /\ fxCalled = TRUE
    /\ fxCalled' = FALSE
    /\ fxIn' = NoFixerArgs
    /\ fxOut' = NoFixerResult
    /\ UNCHANGED fixerFrame

FixerNext ==
    \/ CallApplyFixes
    \/ FixerReturn

\* ------------------------------------------------------ Indexer, as called
\* an empty tree with no index file
StorageEmpty ==
    /\ tree = [p \in 1..MaxFiles |-> AbsentEntry]
    /\ indexFile = NoIndexFile

NoIndexResult == [count |-> 0, err |-> "nil"]

NoIndexFault == [walk |-> 0, write |-> "none"]

\* no Index call in progress
IndexerIdle ==
    /\ idxCalled = FALSE
    /\ idxOut = NoIndexResult
    /\ idxFault = NoIndexFault
    /\ idxPrev = NoIndexFile

\* the evaluations found in the tree: what saveEvaluationToRAG builds from a
\* response with a critical violation and from a clean response
StoredEvaluations ==
    { BuildEvaluation("First Capital Bank", "Director of Engineering",
          EvaluationResponse(<<Violation("FORBIDDEN_NUMBER_FABRICATION", "critical", "40% cost reduction")>>,
                             0, << >>, << >>, 0, TRUE, TRUE, TRUE, <<"never invent numbers">>)),
      BuildEvaluation("Acme Corp", "Senior Platform Engineer",
          EvaluationResponse(<< >>, 0, << >>, << >>, 2, TRUE, TRUE, TRUE, << >>)) }

\* an attempt's os.WriteFile of its evaluation file
StoreEvaluationFile ==
    /\ idxCalled = FALSE
    /\ \E p \in 1..MaxFiles, eval \in StoredEvaluations :
          tree' = [tree EXCEPT ![p] = EvaluationEntry(eval)]
    /\ UNCHANGED <<indexFile, indexerVars>>
    /\ UNCHANGED indexerFrame

\* a directory or a draft file appears in the tree
StoreOtherEntry ==
    /\ idxCalled = FALSE
    /\ \E p \in 1..MaxFiles, isDir \in BOOLEAN :
          tree' = [tree EXCEPT ![p] = OtherEntry(isDir)]
    /\ UNCHANGED <<indexFile, indexerVars>>
    /\ UNCHANGED indexerFrame

\* an evaluation file is left with bytes that do not parse, or unreadable
DamageEvaluationFile ==
    /\ idxCalled = FALSE
    /\ \E p \in 1..MaxFiles, damaged \in {CorruptEntry, UnreadableEntry} :
          tree' = [tree EXCEPT ![p] = damaged]
    /\ UNCHANGED <<indexFile, indexerVars>>
    /\ UNCHANGED indexerFrame

\* an entry is deleted
RemoveEntry ==
    /\ idxCalled = FALSE
    /\ \E p \in 1..MaxFiles :
          /\ tree[p].exists
          /\ tree' = [tree EXCEPT ![p] = AbsentEntry]
    /\ UNCHANGED <<indexFile, indexerVars>>
    /\ UNCHANGED indexerFrame

\* the faults one Index call can meet
IndexFaults ==
    { [walk |-> w, write |-> "none"] : w \in 0..MaxFiles }
    \cup { [walk |-> 0, write |-> wf] : wf \in {"refused", "torn"} }

\* indexer.Index(ctx)
CallIndex ==
    /\ idxCalled = FALSE
    /\ \E fault \in IndexFaults :
          LET r == Index(tree, indexFile, fault.walk, fault.write)
          IN  /\ idxCalled' = TRUE
              /\ idxFault' = fault
              /\ idxPrev' = indexFile
              /\ idxOut' = [count |-> r.count, err |-> r.err]
              /\ indexFile' = r.indexFile
    /\ UNCHANGED tree
    /\ UNCHANGED indexerFrame

\* the caller takes count and err
IndexReturn ==
    /\ idxCalled = TRUE
    /\ idxCalled' = FALSE
    /\ idxOut' = NoIndexResult
    /\ idxFault' = NoIndexFault
    /\ idxPrev' = NoIndexFile
    /\ UNCHANGED storageVars
    /\ UNCHANGED indexerFrame

IndexerNext ==
    \/ StoreEvaluationFile
    \/ StoreOtherEntry
    \/ DamageEvaluationFile
    \/ RemoveEntry
    \/ CallIndex
    \/ IndexReturn

\* ---------------------------------------------------- Retriever, as called
NoRetrieverArgs == [role |-> "", readFault |-> FALSE, ctx |-> ZeroRAGContext]

NoRetrieverResult ==
    [level |-> "", Evaluations |-> << >>, ragCtx |-> ZeroRAGContext, err |-> "nil",
     formatted |-> << >>]

NoSecondRun == [ran |-> FALSE, ragCtx |-> ZeroRAGContext, err |-> "nil", formatted |-> << >>]

\* no Retriever call in progress
RetrieverIdle ==
    /\ rtFn = "none"
    /\ rtIn = NoRetrieverArgs
    /\ rtOut = NoRetrieverResult
    /\ rtAgain = NoSecondRun

RAGLine(section, rule, severity, text) ==
    [Section |-> section, Rule |-> rule, Severity |-> severity, Text |-> text]

\* an entry of an index file, with the role level and the industry Index
\* derived from the role and the company when it wrote the entry
IndexedSample(path, company, role, score, critical, lessons, ragContext) ==
    [ Company |-> company, Role |-> role,
      RoleLevel |-> inferRoleLevel(role), Industry |-> inferIndustry(company),
      OverallScore |-> score, CriticalViolations |-> critical,
      LessonsLearned |-> lessons, RAGContext |-> ragContext, Path |-> path ]

\* the entries the index files of the model are made of: failed and
\* successful attempts at several role levels, with and without critical
\* violations, scores on both sides of 80 and of 85, shared lessons, and
\* each rule-name token in some RAG text
IndexedSamples ==
    { IndexedSample(1, "First Capital Bank", "Director of Engineering", 65, 2,
          <<"never invent numbers">>,
          <<RAGLine("Lessons Learned", "", "", "never invent numbers"),
            RAGLine("Resume Violations", "FORBIDDEN_NUMBER_FABRICATION", "critical", "40% cost reduction"),
            RAGLine("Cover Letter Violations", "FORBIDDEN_NUMBER_FABRICATION", "major", "40% cost reduction"),
            RAGLine("Cover Letter Violations", "FORBIDDEN_INDUSTRY_CLAIMS", "critical", "fintech background")>>),
      IndexedSample(2, "Acme Corp", "Senior Platform Engineer", 90, 0, << >>, << >>),
      IndexedSample(3, "Acme Corp", "Platform Engineer", 79, 0,
          <<"never invent numbers", "quantify with sources">>,
          <<RAGLine("Lessons Learned", "", "", "never invent numbers"),
            RAGLine("Lessons Learned", "", "", "quantify with sources"),
            RAGLine("Resume Violations", "FORBIDDEN_NUMBER_FABRICATION", "major", "40% cost reduction")>>),
      IndexedSample(4, "First Capital Bank", "CTO", 85, 1, << >>,
          <<RAGLine("Resume Violations", "FORBIDDEN_TECHNICAL_DOMAIN_CLAIMS", "critical", "satellite imagery"),
            RAGLine("Resume Violations", "FORBIDDEN_PATTERN_MATCHING", "major", "mirrors trading systems")>>),
      IndexedSample(5, "Acme Corp", "Staff Engineer", 80, 0,
          <<"FORBIDDEN_INDUSTRY_CLAIMS: do not claim fintech">>,
          <<RAGLine("Lessons Learned", "", "", "FORBIDDEN_INDUSTRY_CLAIMS: do not claim fintech")>>) }

\* the role titles a query or a direct inferRoleLevel call is given
RoleTitles ==
    { "Director of Engineering", "Senior Platform Engineer", "Chief Technology Officer", "CTO",
      "VP of Engineering", "Vice President, Platform", "Principal Engineer",
      "Sr. DevOps Engineer", "Staff Engineer", "Tech Lead", "Platform Engineer" }

QueryRoles == {"CTO", "Director of Engineering", "Senior Platform Engineer", "Platform Engineer"}

\* an Index run, or a hand, writes the index file
StoreIndexFile ==
    /\ rtFn = "none"
    /\ \E evaluations \in SeqsUpTo(IndexedSamples, MaxIndexed) :
          indexFile' = IndexFile(TRUE, TRUE, evaluations)
    /\ UNCHANGED <<tree, retrieverVars>>
    /\ UNCHANGED retrieverFrame

\* a failed write leaves the index file truncated
DamageIndexFile ==
    /\ rtFn = "none"
    /\ indexFile.exists
    /\ indexFile' = TornIndexFile
    /\ UNCHANGED <<tree, retrieverVars>>
    /\ UNCHANGED retrieverFrame

\* the index file is deleted
RemoveIndexFile ==
    /\ rtFn = "none"
    /\ indexFile.exists
    /\ indexFile' = NoIndexFile
    /\ UNCHANGED <<tree, retrieverVars>>
    /\ UNCHANGED retrieverFrame

\* indexer.LoadIndex()
CallLoadIndex ==
    /\ rtFn = "none"
    /\ \E readFault \in BOOLEAN :
          LET index == LoadIndex(indexFile, readFault)
          IN  /\ rtFn' = "LoadIndex"
              /\ rtIn' = [NoRetrieverArgs EXCEPT !.readFault = readFault]
              /\ rtOut' = [NoRetrieverResult EXCEPT !.Evaluations = index.Evaluations,
                                                    !.err = index.err]
    /\ UNCHANGED <<rtAgain, storageVars>>
    /\ UNCHANGED retrieverFrame

\* indexer.inferRoleLevel(role)
CallInferRoleLevel ==
    /\ rtFn = "none"
    /\ \E role \in RoleTitles :
          /\ rtFn' = "inferRoleLevel"
          /\ rtIn' = [NoRetrieverArgs EXCEPT !.role = role]
          /\ rtOut' = [NoRetrieverResult EXCEPT !.level = inferRoleLevel(role)]
    /\ UNCHANGED <<rtAgain, storageVars>>
    /\ UNCHANGED retrieverFrame

\* retrieveRAGContext (generate.go 681-703): Retrieve, then FormatForPrompt
\* unless Retrieve failed
RetrieveAndFormat(file, readFault, role) ==
    { [ragCtx |-> r.ragCtx, err |-> r.err,
       formatted |-> IF r.err = "nil" THEN FormatForPrompt(r.ragCtx) ELSE << >>] :
        r \in Retrieve(file, readFault, role) }

\* a call of retrieveRAGContext
CallRetrieve ==
    /\ rtFn = "none"
    /\ \E role \in QueryRoles, readFault \in BOOLEAN :
       \E r \in RetrieveAndFormat(indexFile, readFault, role) :
          /\ rtFn' = "Retrieve"
          /\ rtIn' = [NoRetrieverArgs EXCEPT !.role = role, !.readFault = readFault]
          /\ rtOut' = [NoRetrieverResult EXCEPT !.level = inferRoleLevel(role),
                                                !.ragCtx = r.ragCtx, !.err = r.err,
                                                !.formatted = r.formatted]
    /\ UNCHANGED <<rtAgain, storageVars>>
    /\ UNCHANGED retrieverFrame

\* a second call of retrieveRAGContext with the same arguments over the
\* same index file
CallRetrieveAgain ==
    /\ rtFn = "Retrieve" /\ ~rtAgain.ran
    /\ \E r \in RetrieveAndFormat(indexFile, rtIn.readFault, rtIn.role) :
          rtAgain' = [ran |-> TRUE, ragCtx |-> r.ragCtx, err |-> r.err, formatted |-> r.formatted]
    /\ UNCHANGED <<rtFn, rtIn, rtOut, storageVars>>
    /\ UNCHANGED retrieverFrame

\* the contexts a direct FormatForPrompt call is given: any lists with any count
PromptContexts ==
    { RAGContext(lessons, violations, patterns, n) :
        lessons \in SeqsUpTo({"never invent numbers", "quantify with sources"}, 1),
        violations \in SeqsUpTo({[Label |-> ViolationLabels[t], Count |-> 1] :
                                    t \in {"FORBIDDEN_NUMBER_FABRICATION", "FORBIDDEN_INDUSTRY_CLAIMS"}}, 1),
        patterns \in SeqsUpTo({[Company |-> "Acme Corp", Score |-> 90]}, 1),
        n \in 0..2 }

\* retriever.FormatForPrompt(ctx)
CallFormatForPrompt ==
    /\ rtFn = "none"
    /\ \E ctx \in PromptContexts :
          /\ rtFn' = "FormatForPrompt"
          /\ rtIn' = [NoRetrieverArgs EXCEPT !.ctx = ctx]
          /\ rtOut' = [NoRetrieverResult EXCEPT !.formatted = FormatForPrompt(ctx)]
    /\ UNCHANGED <<rtAgain, storageVars>>
    /\ UNCHANGED retrieverFrame

\* the caller takes the results; the Retriever keeps no state between calls
RetrieverReturn ==
    /\ rtFn # "none"
    /\ rtFn' = "none"
    /\ rtIn' = NoRetrieverArgs
    /\ rtOut' = NoRetrieverResult
    /\ rtAgain' = NoSecondRun
    /\ UNCHANGED storageVars
    /\ UNCHANGED retrieverFrame

RetrieverNext ==
    \/ StoreIndexFile
    \/ DamageIndexFile
    \/ RemoveIndexFile
    \/ CallLoadIndex
    \/ CallInferRoleLevel
    \/ CallRetrieve
    \/ CallRetrieveAgain
    \/ CallFormatForPrompt
    \/ RetrieverReturn

\* ---------------------------------------- runGenerate, from retrieval on
NoCall == [kind |-> "none", resp |-> ZeroEvaluationResponse, resume |-> << >>, cover |-> << >>]

NoFix == [ran |-> FALSE, fixedResume |-> << >>, fixedCoverLetter |-> << >>, appliedFixes |-> << >>]

NoGeneration == [ran |-> FALSE, ragContext |-> << >>]

\* no generation attempt in progress
AttemptIdle ==
    /\ pc = "idle" /\ autoFix = TRUE
    /\ resumeMD = << >> /\ coverMD = << >>
    /\ evalResp = ZeroEvaluationResponse /\ finalEval = ZeroEvaluationResponse
    /\ evalErr = "nil" /\ ragErr = "nil" /\ result = "nil" /\ rendered = FALSE
    /\ lastCall = NoCall /\ detectorCalls = 0 /\ firstClean = FALSE
    /\ fixOut = NoFix /\ draftWrites = 0 /\ indexRuns = 0
    /\ ragPrompt = << >> /\ retrieveErr = "nil" /\ genCall = NoGeneration

\* the state after Phase 1 and createCompanyOutputDir: no draft is written yet
AttemptStart ==
    /\ pc = "retrieve" /\ autoFix \in BOOLEAN
    /\ resumeMD = << >> /\ coverMD = << >>
    /\ evalResp = ZeroEvaluationResponse /\ finalEval = ZeroEvaluationResponse
    /\ evalErr = "nil" /\ ragErr = "nil" /\ result = "nil" /\ rendered = FALSE
    /\ lastCall = NoCall /\ detectorCalls = 0 /\ firstClean = FALSE
    /\ fixOut = NoFix /\ draftWrites = 0 /\ indexRuns = 0
    /\ ragPrompt = << >> /\ retrieveErr = "nil" /\ genCall = NoGeneration

\* the target of the attempt and the tree entry of its evaluation file
AttemptCompany == "First Capital Bank"

AttemptRole == "Director of Engineering"

AttemptPath == EvaluationPath(AttemptCompany, AttemptRole)

\* what a detector response carries besides the resume and cover-letter
\* violations: nothing, or an accuracy violation, a weak issue, verified
\* metrics, a false flag and a lesson
ResponseExtras ==
    { [weak |-> 0, accuracy |-> << >>, metrics |-> 0, datesOK |-> TRUE, lessons |-> << >>],
      [weak |-> 1, accuracy |-> <<Violation("TEMPORAL_IMPOSSIBILITY", "major", "25+ years building AWS")>>,
       metrics |-> 2, datesOK |-> FALSE, lessons |-> <<"never invent numbers">>] }

\* the responses the detector returns when its call succeeds
DetectorResponses ==
    { EvaluationResponse(rv, x.weak, x.accuracy, cv, x.metrics, x.datesOK, TRUE, TRUE, x.lessons) :
        rv \in SeqsUpTo(DetectorViolations, MaxRespViolations),
        cv \in SeqsUpTo(DetectorViolations, MaxRespViolations),
        x \in ResponseExtras }

\* what json.Unmarshal leaves in resp when it fails: nothing, or the fields
\* decoded before and after the value of the wrong type
PartialResponses ==
    { ZeroEvaluationResponse,
      EvaluationResponse(<<Violation("FORBIDDEN_NUMBER_FABRICATION", "critical", "40% cost reduction")>>,
                         0, << >>, << >>, 0, FALSE, FALSE, FALSE, << >>) }

\* the outcomes of runEvaluation: a file cannot be read or the evaluator
\* cannot be created, so that no call is made ("read"), the
\* call fails ("call": transport, status, empty content), the context is
\* cancelled or timed out ("cancelled"), the response text does not parse
\* ("parse"), or the detector answers ("ok")
RunEvaluationOutcomes ==
    { [kind |-> k, resp |-> ZeroEvaluationResponse] : k \in {"read", "call", "cancelled"} }
    \cup { [kind |-> "parse", resp |-> r] : r \in PartialResponses }
    \cup { [kind |-> "ok", resp |-> r] :
             r \in {d \in DetectorResponses :
                       Len(d.ResumeViolations) + Len(d.CoverLetterViolations) <= MaxRespViolations} }

DetectorFailures == {"call", "cancelled", "parse"}

\* the test "if err != nil" after runEvaluation (lines 964 and 1004) that
\* never fires
Failed_Ignored(outcome) == FALSE

\* the test "if err != nil" after runEvaluation (lines 964 and 1004)
Failed(outcome) == outcome.kind # "ok"

\* the test of line 970 with the accuracy violations counted in
NeedsFix_CountsAccuracy(resp) ==
    Len(resp.ResumeViolations) + Len(resp.CoverLetterViolations) + Len(resp.AccuracyViolations) # 0

\* the test of line 970 inverted: Fix runs whatever Evaluate#1 reported
NeedsFix_Always(resp) == TRUE

\* lines 969-970: totalViolations != 0
NeedsFix(resp) == Len(resp.ResumeViolations) + Len(resp.CoverLetterViolations) # 0

\* the history of a runEvaluation: the request built from the draft files
\* and the outcome, and the count of detector calls
RecordCall(outcome) ==
    IF outcome.kind = "read" THEN UNCHANGED <<lastCall, detectorCalls>>
    ELSE /\ lastCall' = [kind |-> outcome.kind, resp |-> outcome.resp,
                         resume |-> resumeMD, cover |-> coverMD]
         /\ detectorCalls' = detectorCalls + 1

IsClean(outcome) ==
    /\ outcome.kind = "ok"
    /\ outcome.resp.ResumeViolations = << >>
    /\ outcome.resp.CoverLetterViolations = << >>

\* the evaluation an earlier attempt for another role left under the root
PriorEvaluation ==
    BuildEvaluation("First Capital Bank", "Senior Platform Engineer",
                    EvaluationResponse(<<Violation("FORBIDDEN_NUMBER_FABRICATION", "critical", "40% cost reduction")>>,
                                       0, << >>, << >>, 0, TRUE, TRUE, TRUE, <<"never invent numbers">>))

PriorPath == EvaluationPath("First Capital Bank", "Senior Platform Engineer")

\* the applications tree and index that earlier attempt left
StoragePrior ==
    /\ tree = [p \in 1..MaxFiles |-> IF p = PriorPath THEN EvaluationEntry(PriorEvaluation)
                                       ELSE AbsentEntry]
    /\ indexFile = IndexFile(TRUE, TRUE, <<IndexedEvaluation(PriorPath, PriorEvaluation)>>)

\* what the attempt finds under the base output directory
AttemptStorage == StorageEmpty \/ StoragePrior

\* lines 120-127 returning the error of retrieveRAGContext
AfterRetrieve_ReturnErr(r) ==
    [ pc |-> IF r.err = "nil" THEN "generate" ELSE "done",
      ragContext |-> r.formatted, result |-> r.err ]

\* lines 120-127: a retrieval error is reported as a warning and the RAG
\* context set to the empty text; Phase 2 follows
AfterRetrieve(r) ==
    [ pc |-> "generate",
      ragContext |-> IF r.err # "nil" THEN << >> ELSE r.formatted, result |-> "nil" ]

\* retrieveRAGContext for the target of the attempt and the test of its error
RetrieveRAGContext ==
    /\ pc = "retrieve"
    /\ \E readFault \in BOOLEAN :
       \E r \in RetrieveAndFormat(indexFile, readFault, AttemptRole) :
          /\ retrieveErr' = r.err
          /\ ragPrompt' = AfterRetrieve(r).ragContext
          /\ pc' = AfterRetrieve(r).pc
          /\ result' = AfterRetrieve(r).result
    /\ UNCHANGED <<autoFix, resumeMD, coverMD, evalResp, finalEval, evalErr, ragErr, rendered,
                   lastCall, detectorCalls, firstClean, fixOut, draftWrites, indexRuns,
                   genCall, storageVars>>
    /\ UNCHANGED attemptFrame

\* how Phase 2 and writeInitialFiles end: the drafts are written, the
\* generation call fails, or a file cannot be written (the job description
\* first, the resume before the cover letter)
GenerationOutcomes ==
    { "nil", "Claude API generation failed", "failed to write job description file",
      "failed to write cover letter markdown" }

\* Phase 2 of runGenerate, buildFilenames and writeInitialFiles
RunGenerationPhase ==
    /\ pc = "generate"
    /\ genCall' = [ran |-> TRUE, ragContext |-> ragPrompt]
    /\ \E outcome \in GenerationOutcomes, resume \in Drafts(MaxDraftLen), cover \in Drafts(MaxDraftLen) :
          /\ resumeMD' = IF outcome \in {"nil", "failed to write cover letter markdown"}
                         THEN resume ELSE << >>
          /\ coverMD' = IF outcome = "nil" THEN cover ELSE << >>
          /\ outcome # "nil" => cover = << >>
          /\ outcome \in {"Claude API generation failed", "failed to write job description file"}
                => resume = << >>
          /\ result' = outcome
          /\ pc' = IF outcome = "nil" THEN "evaluate" ELSE "done"
    /\ UNCHANGED <<autoFix, evalResp, finalEval, evalErr, ragErr, rendered,
                   lastCall, detectorCalls, firstClean, fixOut, draftWrites, indexRuns,
                   ragPrompt, retrieveErr, storageVars>>
    /\ UNCHANGED attemptFrame

\* runEvaluationPhase with auto-fix: runHybridEvaluationAndFix up to the
\* decision of line 970 (Evaluate#1)
Evaluate1 ==
    /\ pc = "evaluate" /\ autoFix
    /\ \E o \in RunEvaluationOutcomes :
          /\ RecordCall(o)
          /\ firstClean' = IsClean(o)
          /\ IF Failed(o)
             THEN /\ evalErr' = o.kind
                  /\ finalEval' = ZeroEvaluationResponse
                  /\ evalResp' = ZeroEvaluationResponse
                  /\ pc' = "save"
             ELSE IF NeedsFix(o.resp)
             THEN /\ evalResp' = o.resp
                  /\ pc' = "fix"
                  /\ UNCHANGED <<evalErr, finalEval>>
             ELSE /\ finalEval' = o.resp
                  /\ evalResp' = ZeroEvaluationResponse
                  /\ pc' = "save"
                  /\ UNCHANGED evalErr
    /\ UNCHANGED <<autoFix, resumeMD, coverMD, ragErr, result, rendered, fixOut, draftWrites,
                   indexRuns, storageVars>>
    /\ UNCHANGED <<ragPrompt, retrieveErr, genCall>>
    /\ UNCHANGED attemptFrame

\* the ways applyAndWriteFixes can fail: reading a draft, writing the resume
\* (file untouched, or truncated), writing the cover letter (likewise)
FixFaults == {"none", "read", "resumeWrite", "resumeTorn", "coverWrite", "coverTorn"}

\* what a failed os.WriteFile leaves of the content it was writing
TornContents(content) == {SubSeq(content, 1, k) : k \in 0..(Len(content) - 1)} \cup {<< >>}

\* applyAndWriteFixes and the return of line 998
ApplyAndWriteFixes ==
    /\ pc = "fix"
    /\ \E fault \in FixFaults :
          LET f == ApplyFixes(resumeMD, coverMD, evalResp)
              written == f.appliedFixes # << >>
          IN  /\ (fault \notin {"none", "read"}) => written
              /\ fixOut' = IF fault = "read" THEN fixOut
                           ELSE [ran |-> TRUE, fixedResume |-> f.fixedResume,
                                 fixedCoverLetter |-> f.fixedCoverLetter,
                                 appliedFixes |-> f.appliedFixes]
              /\ resumeMD' \in
                    CASE ~written \/ fault \in {"read", "resumeWrite"} -> {resumeMD}
                      [] fault = "resumeTorn" -> TornContents(f.fixedResume)
                      [] OTHER -> {f.fixedResume}
              /\ coverMD' \in
                    CASE ~written \/ fault \in {"read", "resumeWrite", "resumeTorn", "coverWrite"} -> {coverMD}
                      [] fault = "coverTorn" -> TornContents(f.fixedCoverLetter)
                      [] OTHER -> {f.fixedCoverLetter}
              /\ draftWrites' =
                    CASE ~written \/ fault \in {"read", "resumeWrite"} -> draftWrites
                      [] fault \in {"resumeTorn", "coverWrite"} -> draftWrites + 1
                      [] OTHER -> draftWrites + 2
              /\ IF fault = "none"
                 THEN pc' = "evaluate2" /\ UNCHANGED <<evalErr, finalEval>>
                 ELSE pc' = "save" /\ evalErr' = "fix" /\ finalEval' = ZeroEvaluationResponse
    /\ evalResp' = ZeroEvaluationResponse
    /\ UNCHANGED <<autoFix, ragErr, result, rendered, lastCall, detectorCalls, firstClean,
                   indexRuns, storageVars>>
    /\ UNCHANGED <<ragPrompt, retrieveErr, genCall>>
    /\ UNCHANGED attemptFrame

\* Evaluate#2 looping back to Fix while violations remain
Evaluate2_Retry ==
    /\ pc = "evaluate2"
    /\ \E o \in RunEvaluationOutcomes :
          /\ RecordCall(o)
          /\ IF ~Failed(o) /\ NeedsFix(o.resp) /\ detectorCalls < 3
             THEN pc' = "fix" /\ evalResp' = o.resp /\ UNCHANGED <<finalEval, evalErr>>
             ELSE /\ pc' = "save" /\ evalResp' = evalResp
                  /\ finalEval' = o.resp
                  /\ evalErr' = IF Failed(o) THEN o.kind ELSE "nil"
    /\ UNCHANGED <<autoFix, resumeMD, coverMD, ragErr, result, rendered, firstClean,
                   fixOut, draftWrites, indexRuns, storageVars>>
    /\ UNCHANGED <<ragPrompt, retrieveErr, genCall>>
    /\ UNCHANGED attemptFrame

\* runHybridEvaluationAndFix from line 1003 on (Evaluate#2)
Evaluate2 ==
    /\ pc = "evaluate2"
    /\ \E o \in RunEvaluationOutcomes :
          /\ RecordCall(o)
          /\ finalEval' = o.resp
          /\ evalErr' = IF Failed(o) THEN o.kind ELSE "nil"
    /\ pc' = "save"
    /\ UNCHANGED <<autoFix, resumeMD, coverMD, evalResp, ragErr, result, rendered, firstClean,
                   fixOut, draftWrites, indexRuns, storageVars>>
    /\ UNCHANGED <<ragPrompt, retrieveErr, genCall>>
    /\ UNCHANGED attemptFrame

\* runEvaluationPhase without auto-fix: one runEvaluation
EvaluateOnce ==
    /\ pc = "evaluate" /\ ~autoFix
    /\ \E o \in RunEvaluationOutcomes :
          /\ RecordCall(o)
          /\ firstClean' = IsClean(o)
          /\ finalEval' = o.resp
          /\ evalErr' = IF Failed(o) THEN o.kind ELSE "nil"
    /\ pc' = "save"
    /\ UNCHANGED <<autoFix, resumeMD, coverMD, evalResp, ragErr, result, rendered,
                   fixOut, draftWrites, indexRuns, storageVars>>
    /\ UNCHANGED <<ragPrompt, retrieveErr, genCall>>
    /\ UNCHANGED attemptFrame

\* the ways saveEvaluationToRAG can fail: writing the evaluation file (file
\* untouched, or truncated), and the faults of Index
SaveFaults ==
    { [file |-> f, index |-> NoIndexFault] : f \in {"none", "refused", "torn"} }
    \cup { [file |-> "none", index |-> i] : i \in IndexFaults }

\* Phase 4 of runGenerate: saveEvaluationToRAG; the test "err == nil" of
\* line 149 reads the error of writeInitialFiles, which is nil here
SaveEvaluationToRAG ==
    /\ pc = "save"
    /\ \E fault \in SaveFaults :
          LET r == saveEvaluationToRAG(tree, indexFile, AttemptCompany, AttemptRole, finalEval, fault)
          IN  /\ tree' = r.tree
              /\ indexFile' = r.indexFile
              /\ indexRuns' = IF r.indexed THEN indexRuns + 1 ELSE indexRuns
              /\ ragErr' = r.err
    /\ pc' = "render"
    /\ UNCHANGED <<autoFix, resumeMD, coverMD, evalResp, finalEval, evalErr, result, rendered,
                   lastCall, detectorCalls, firstClean, fixOut, draftWrites>>
    /\ UNCHANGED <<ragPrompt, retrieveErr, genCall>>
    /\ UNCHANGED attemptFrame

\* Phase 5 of runGenerate: renderPDFs unless --skip-pdf, and the return
RenderPDFs ==
    /\ pc = "render"
    /\ \E skipPDF \in BOOLEAN, renderErr \in {"nil", "failed to clean up markdown files"} :
          /\ rendered' = ~skipPDF
          /\ result' = IF skipPDF THEN "nil" ELSE renderErr
    /\ pc' = "done"
    /\ UNCHANGED <<autoFix, resumeMD, coverMD, evalResp, finalEval, evalErr, ragErr,
                   lastCall, detectorCalls, firstClean, fixOut, draftWrites, indexRuns,
                   storageVars>>
    /\ UNCHANGED <<ragPrompt, retrieveErr, genCall>>
    /\ UNCHANGED attemptFrame

AttemptNext ==
    \/ RetrieveRAGContext
    \/ RunGenerationPhase
    \/ Evaluate1
    \/ ApplyAndWriteFixes
    \/ Evaluate2
    \/ EvaluateOnce
    \/ SaveEvaluationToRAG
    \/ RenderPDFs

\* ------------------------------------------------- a sequence of attempts
\* no attempt of the sequence has run
SequenceStart == runs = << >>

\* the company and role extractCompanyAndRole gives the attempts
AttemptTargets ==
    { [company |-> "First Capital Bank", role |-> "Director of Engineering"],
      [company |-> "First Capital Bank", role |-> "Senior Platform Engineer"],
      [company |-> "First Capital Bank", role |-> "Staff Engineer"],
      [company |-> "First Capital Bank Inc", role |-> "Staff Engineer"] }

\* the evaluations runEvaluationPhase hands to Phase 4
FinalEvaluations ==
    { ZeroEvaluationResponse,
      EvaluationResponse(<<Violation("FORBIDDEN_NUMBER_FABRICATION", "critical", "40% cost reduction")>>,
                         0, << >>, << >>, 0, TRUE, TRUE, TRUE, <<"never invent numbers">>) }

\* one runGenerate of the sequence that reaches Phase 4: saveEvaluationToRAG
\* for its target with the evaluation of its Phase 3
RunAttempt ==
    /\ Len(runs) < MaxAttempts
    /\ \E target \in AttemptTargets, evaluation \in FinalEvaluations, fault \in SaveFaults :
          LET r == saveEvaluationToRAG(tree, indexFile, target.company, target.role,
                                       evaluation, fault)
          IN  /\ tree' = r.tree
              /\ indexFile' = r.indexFile
              /\ runs' = Append(runs, [ Filename |-> evalFilename(target.company, target.role),
                                        wrote |-> fault.file = "none" ])
    /\ UNCHANGED sequenceFrame

SequenceNext ==
    \/ RunAttempt

\* ------------------------------------------- Client and Evaluator, as called
NoExchange == Exchange("none", 0, FALSE, << >>)

NoCallResult == CallResult(FALSE, "nil", FALSE)

\* no call in progress
ClientIdle ==
    /\ clFn = "none"
    /\ clIn = NoExchange
    /\ clOut = NoCallResult

\* the texts of a content block
Texts == SeqsUpTo(TextPieces, MaxTextLen)

\* the content lists of a response: none, one block, or a second block
\* holding a valid object after a first block of at most one piece
Contents ==
    {<< >>} \cup {<<t>> : t \in Texts}
    \cup {<<t, <<ValidObject>>>> : t \in SeqsUpTo(TextPieces, 1)}

\* the exchanges of the model
Exchanges ==
    { Exchange(f, 0, FALSE, << >>) : f \in {"cancelled", "transport"} }
    \cup { Exchange("body", st, FALSE, << >>) : st \in {200, 500} }
    \cup { Exchange("none", st, e, IF e THEN <<<<ValidObject>>>> ELSE << >>) :
              st \in {400, 429, 500}, e \in BOOLEAN }
    \cup { Exchange("none", 200, FALSE, << >>) }
    \cup { Exchange("none", 200, TRUE, c) : c \in Contents }

CallAnalyze ==
    /\ clFn = "none"
    /\ \E exchange \in Exchanges :
          /\ clFn' = "Analyze"
          /\ clIn' = exchange
          /\ clOut' = Analyze(exchange)
    /\ UNCHANGED clientFrame

CallGenerate ==
    /\ clFn = "none"
    /\ \E exchange \in Exchanges :
          /\ clFn' = "Generate"
          /\ clIn' = exchange
          /\ clOut' = Generate(exchange)
    /\ UNCHANGED clientFrame

CallGenerateGeneral ==
    /\ clFn = "none"
    /\ \E exchange \in Exchanges :
          /\ clFn' = "GenerateGeneral"
          /\ clIn' = exchange
          /\ clOut' = GenerateGeneral(exchange)
    /\ UNCHANGED clientFrame

CallEvaluate ==
    /\ clFn = "none"
    /\ \E exchange \in Exchanges :
          /\ clFn' = "Evaluate"
          /\ clIn' = exchange
          /\ clOut' = Evaluate(exchange)
    /\ UNCHANGED clientFrame

\* the caller takes the result (or the process has ended on the panic) and
\* another call can be made
ClientReturn ==
    /\ clFn # "none"
    /\ clFn' = "none"
    /\ clIn' = NoExchange
    /\ clOut' = NoCallResult
    /\ UNCHANGED clientFrame

ClientNext ==
    \/ CallAnalyze
    \/ CallGenerate
    \/ CallGenerateGeneral
    \/ CallEvaluate
    \/ ClientReturn

\* ------------------------------------------------------------------ spinner
\* the spinner goroutine: about to print the message ("print"), at the
\* select ("select"), about to clear the line ("clear"), about to send on
\* done ("sendDone"), about to return ("return"); i is the frame counter,
\* of which only i % 4 is read
Routine(at, i) == [at |-> at, i |-> i]

NoSpinnerCall == [op |-> "none", atOnce |-> FALSE]

\* newSpinner: not active, no goroutine, nothing sent on the channels
SpinnerIdle ==
    /\ spCaller = "idle" /\ spActive = FALSE /\ spRoutines = << >>
    /\ spCalls = 0 /\ spLast = NoSpinnerCall /\ spLate = FALSE

\* a goroutine writes to the terminal; the write is late when the spinner
\* is stopped and the pipeline has gone on
Writes == spLate' = (spLate \/ (spCaller = "idle" /\ ~spActive))

\* start without the test of active: every call launches a goroutine
SpinnerStart_NoTest ==
    /\ spCaller = "idle" /\ spCalls < MaxSpinnerCalls
    /\ spCalls' = spCalls + 1
    /\ spActive' = TRUE
    /\ spCaller' = "go"
    /\ UNCHANGED <<spLast, spRoutines, spLate>>
    /\ UNCHANGED spinnerFrame

\* start up to the go statement: under the mutex, return if active, else
\* set active (only the pipeline touches the mutex and the flag)
SpinnerStart ==
    /\ spCaller = "idle" /\ spCalls < MaxSpinnerCalls
    /\ spCalls' = spCalls + 1
    /\ IF spActive
       THEN /\ spLast' = [op |-> "start", atOnce |-> TRUE]
            /\ UNCHANGED <<spCaller, spActive>>
       ELSE /\ spActive' = TRUE
            /\ spCaller' = "go"
            /\ UNCHANGED spLast
    /\ UNCHANGED <<spRoutines, spLate>>
    /\ UNCHANGED spinnerFrame

\* the go statement of start, and its return
SpinnerGo ==
    /\ spCaller = "go"
    /\ spRoutines' = Append(spRoutines, Routine("print", 0))
    /\ spCaller' = "idle"
    /\ spLast' = [op |-> "start", atOnce |-> FALSE]
    /\ UNCHANGED <<spActive, spCalls, spLate>>
    /\ UNCHANGED spinnerFrame

\* stopSpinner up to the send: under the mutex, return if not active
SpinnerStop ==
    /\ spCaller = "idle" /\ spCalls < MaxSpinnerCalls
    /\ spCalls' = spCalls + 1
    /\ IF ~spActive
       THEN /\ spLast' = [op |-> "stopSpinner", atOnce |-> TRUE]
            /\ UNCHANGED spCaller
       ELSE /\ spCaller' = "sendStop"
            /\ UNCHANGED spLast
    /\ UNCHANGED <<spActive, spRoutines, spLate>>
    /\ UNCHANGED spinnerFrame

\* the goroutine prints the message and enters the loop
RoutinePrint ==
    /\ \E k \in 1..Len(spRoutines) :
          /\ spRoutines[k].at = "print"
          /\ spRoutines' = [spRoutines EXCEPT ![k].at = "select"]
    /\ Writes
    /\ UNCHANGED <<spCaller, spActive, spCalls, spLast>>
    /\ UNCHANGED spinnerFrame

\* case <-ticker.C: the goroutine draws the next frame
RoutineTick ==
    /\ \E k \in 1..Len(spRoutines) :
          /\ spRoutines[k].at = "select"
          /\ spRoutines' = [spRoutines EXCEPT ![k].i = (@ + 1) % 4]
    /\ Writes
    /\ UNCHANGED <<spCaller, spActive, spCalls, spLast>>
    /\ UNCHANGED spinnerFrame

\* s.stop <- true meets case <-s.stop (the channel is unbuffered)
StopRendezvous ==
    /\ spCaller = "sendStop"
    /\ \E k \in 1..Len(spRoutines) :
          /\ spRoutines[k].at = "select"
          /\ spRoutines' = [spRoutines EXCEPT ![k].at = "clear"]
    /\ spCaller' = "recvDone"
    /\ UNCHANGED <<spActive, spCalls, spLast, spLate>>
    /\ UNCHANGED spinnerFrame

\* the goroutine clears the line
RoutineClear ==
    /\ \E k \in 1..Len(spRoutines) :
          /\ spRoutines[k].at = "clear"
          /\ spRoutines' = [spRoutines EXCEPT ![k].at = "sendDone"]
    /\ Writes
    /\ UNCHANGED <<spCaller, spActive, spCalls, spLast>>
    /\ UNCHANGED spinnerFrame

\* s.done <- true meets <-s.done
DoneRendezvous ==
    /\ spCaller = "recvDone"
    /\ \E k \in 1..Len(spRoutines) :
          /\ spRoutines[k].at = "sendDone"
          /\ spRoutines' = [spRoutines EXCEPT ![k].at = "return"]
    /\ spCaller' = "clearActive"
    /\ UNCHANGED <<spActive, spCalls, spLast, spLate>>
    /\ UNCHANGED spinnerFrame

\* the goroutine returns and its deferred ticker.Stop runs
RoutineReturn ==
    /\ \E k \in 1..Len(spRoutines) :
          /\ spRoutines[k].at = "return"
          /\ spRoutines' = SubSeq(spRoutines, 1, k - 1) \o SubSeq(spRoutines, k + 1, Len(spRoutines))
    /\ UNCHANGED <<spCaller, spActive, spCalls, spLast, spLate>>
    /\ UNCHANGED spinnerFrame

\* the end of stopSpinner: active = false under the mutex, and the return
SpinnerStopReturn ==
    /\ spCaller = "clearActive"
    /\ spActive' = FALSE
    /\ spCaller' = "idle"
    /\ spLast' = [op |-> "stopSpinner", atOnce |-> FALSE]
    /\ UNCHANGED <<spRoutines, spCalls, spLate>>
    /\ UNCHANGED spinnerFrame

\* the steps the Go scheduler runs once they can run: those of the caller
\* inside start and stopSpinner, and those of the goroutine but the ticker's
SpinnerProgress ==
    \/ SpinnerGo
    \/ RoutinePrint
    \/ StopRendezvous
    \/ RoutineClear
    \/ DoneRendezvous
    \/ RoutineReturn
    \/ SpinnerStopReturn

SpinnerNext ==
    \/ SpinnerStart
    \/ SpinnerStop
    \/ RoutineTick
    \/ SpinnerProgress

\* ---------------------------------------------------------- specifications
\* an attempt is about to retrieve its RAG context, over an empty tree or
\* the tree of an earlier attempt; no call is in progress
Init == ScorerIdle /\ FixerIdle /\ AttemptStorage /\ IndexerIdle /\ RetrieverIdle /\ SequenceStart /\ ClientIdle /\ AttemptStart /\ SpinnerIdle

\* one generation attempt, from retrieval to the return of runGenerate
Spec ==
    /\ Init
    /\ [][AttemptNext]_vars

\* no attempt and no call in progress: the Scorer is about to be called
ScorerInit == ScorerIdle /\ FixerIdle /\ StorageEmpty /\ IndexerIdle /\ RetrieverIdle /\ SequenceStart /\ ClientIdle /\ AttemptIdle /\ SpinnerIdle

\* the Scorer's functions called with every input within the bounds
SpecScorer ==
    /\ ScorerInit
    /\ [][ScorerNext]_vars

\* no attempt and no call in progress: the Fixer is about to be called
FixerInit == ScorerIdle /\ FixerIdle /\ StorageEmpty /\ IndexerIdle /\ RetrieverIdle /\ SequenceStart /\ ClientIdle /\ AttemptIdle /\ SpinnerIdle

\* ApplyFixes called with every pair of drafts and evaluation within the bounds
SpecFixer ==
    /\ FixerInit
    /\ [][FixerNext]_vars

\* no attempt and no call in progress, over an empty applications tree
IndexerInit == ScorerIdle /\ FixerIdle /\ StorageEmpty /\ IndexerIdle /\ RetrieverIdle /\ SequenceStart /\ ClientIdle /\ AttemptIdle /\ SpinnerIdle

\* Index run over every tree of evaluation files, damaged files and other
\* entries within the bounds
SpecIndexer ==
    /\ IndexerInit
    /\ [][IndexerNext]_vars

\* no attempt and no call in progress, no index file yet
RetrieverInit == ScorerIdle /\ FixerIdle /\ StorageEmpty /\ IndexerIdle /\ RetrieverIdle /\ SequenceStart /\ ClientIdle /\ AttemptIdle /\ SpinnerIdle

\* LoadIndex, inferRoleLevel, retrieveRAGContext and FormatForPrompt called
\* over every index file within the bounds
SpecRetriever ==
    /\ RetrieverInit
    /\ [][RetrieverNext]_vars

\* no attempt and no call in progress, nothing stored yet
SequenceInit == ScorerIdle /\ FixerIdle /\ StorageEmpty /\ IndexerIdle /\ RetrieverIdle /\ SequenceStart /\ ClientIdle /\ AttemptIdle /\ SpinnerIdle

\* generation attempts one after another over the same applications tree
SpecAttempts ==
    /\ SequenceInit
    /\ [][SequenceNext]_vars

\* no attempt and no call in progress
ClientInit == ScorerIdle /\ FixerIdle /\ StorageEmpty /\ IndexerIdle /\ RetrieverIdle /\ SequenceStart /\ ClientIdle /\ AttemptIdle /\ SpinnerIdle

\* Analyze, Generate, GenerateGeneral and Evaluate called over every
\* exchange within the bounds
SpecClient ==
    /\ ClientInit
    /\ [][ClientNext]_vars

\* a spinner just created, no call in progress
SpinnerInit == ScorerIdle /\ FixerIdle /\ StorageEmpty /\ IndexerIdle /\ RetrieverIdle /\ SequenceStart /\ ClientIdle /\ AttemptIdle /\ SpinnerIdle

\* start and stopSpinner called in any order by the sequential pipeline on
\* one spinner; a step that can run is eventually run, the ticker's aside
SpecSpinner ==
    /\ SpinnerInit
    /\ [][SpinnerNext]_vars
    /\ WF_vars(SpinnerProgress)

\* ------------------------------------------------------------ Scorer claims
RECURSIVE SumOver(_, _)
\* the sum of f[x] over the finite set S
SumOver(S, f) ==
    IF S = {} THEN 0
    ELSE LET x == CHOOSE y \in S : TRUE
         IN  f[x] + SumOver(S \ {x}, f)

\* the number of entries of the list that name the rule
Occurrences(violations, rule) ==
    Cardinality({i \in 1..Len(violations) : violations[i].Rule = rule})

\* the summed catalog weight of the listed violations of one category
CategoryWeight(violations, category) ==
    LET rules == {r \in DOMAIN ScoringRules : ScoringRules[r].Category = category}
    IN  SumOver(rules, [r \in rules |-> ScoringRules[r].Weight * Occurrences(violations, r)])

InRange(n) == n \in 0..100

\* C6: every number CalculateScores returns (the anti-fabrication, weak-
\* quantification, accuracy and domain-claims scores, the resume total, the
\* cover-letter total and the overall score) lies in 0..100.
C6_ScoresInRange ==
    scFn = "CalculateScores" =>
        /\ InRange(scOut.AntiFabrication)
        /\ InRange(scOut.WeakQuantifications)
        /\ InRange(scOut.Accuracy)
        /\ InRange(scOut.DomainClaims)
        /\ InRange(scOut.ResumeTotal)
        /\ InRange(scOut.CoverLetterTotal)
        /\ InRange(scOut.Overall)

\* a CalculateScores call in which the domain-claims deductions exceed 100,
\* 21 weak issues exhaust the weak score and the metrics bonus overshoots 100
C6_Witness ==
    /\ scFn = "CalculateScores"
    /\ CategoryWeight(scIn.domain, "anti_fabrication") > 100
    /\ scIn.weak > 20
    /\ scIn.metrics > 0 /\ scIn.accuracy = << >> /\ scIn.datesOK /\ scIn.titlesOK /\ scIn.yearsOK
    /\ scOut.DomainClaims = 0 /\ scOut.WeakQuantifications = 0 /\ scOut.Accuracy = 100

\* C7: the anti-fabrication score is max(0, 100 - S), S the summed catalog
\* weight of the listed violations whose rule is in the catalog with category
\* anti_fabrication; rules outside the catalog change nothing, and a single
\* FORBIDDEN_NUMBER_FABRICATION violation gives 70.
C7_AntiFabricationFormula ==
    /\ scFn = "calculateAntiFabricationScore" =>
          /\ scOut.Score = Max(0, 100 - CategoryWeight(scIn.antiFab, "anti_fabrication"))
          /\ (Len(scIn.antiFab) = 1 /\ scIn.antiFab[1].Rule = "FORBIDDEN_NUMBER_FABRICATION")
                => scOut.Score = 70
    /\ scFn = "CalculateScores" =>
          scOut.AntiFabrication = Max(0, 100 - CategoryWeight(scIn.antiFab, "anti_fabrication"))

\* the catalog example next to an unknown rule and a rule of another category
C7_Witness ==
    /\ scFn = "calculateAntiFabricationScore"
    /\ Len(scIn.antiFab) = 3
    /\ Occurrences(scIn.antiFab, "FORBIDDEN_NUMBER_FABRICATION") = 1
    /\ Occurrences(scIn.antiFab, UnknownRule) = 1
    /\ Occurrences(scIn.antiFab, "COMPANY_DATE_MISMATCH") = 1
    /\ scOut.Score = 70

\* C8: the accuracy score is 100 less the weights of the accuracy-category
\* violations, less 25 for wrong company dates, 20 for wrong role titles and
\* 25 for wrong years of experience, plus min(verified metrics, 10), clamped
\* into 0..100; no violations, three true flags and 12 metrics give 100.
C8_AccuracyFormula ==
    scFn = "calculateAccuracyScore" =>
        LET raw == 100 - CategoryWeight(scIn.accuracy, "accuracy")
                       - (IF scIn.datesOK THEN 0 ELSE 25)
                       - (IF scIn.titlesOK THEN 0 ELSE 20)
                       - (IF scIn.yearsOK THEN 0 ELSE 25)
                       + Min(scIn.metrics, 10)
        IN  /\ scOut.Score = Max(0, Min(100, raw))
            /\ (scIn.accuracy = << >> /\ scIn.datesOK /\ scIn.titlesOK /\ scIn.yearsOK
                   /\ scIn.metrics = 12) => scOut.Score = 100

\* 12 verified metrics with one false flag: the bonus is capped at 10
C8_Witness ==
    /\ scFn = "calculateAccuracyScore"
    /\ scIn.metrics = 12 /\ scIn.accuracy = << >>
    /\ ~scIn.datesOK /\ scIn.titlesOK /\ scIn.yearsOK
    /\ scOut.Score = 85

\* the listed violations whose catalog rule has the category
OfCategory(violations, category) ==
    SelectSeq(violations, LAMBDA v : /\ v.Rule \in DOMAIN ScoringRules
                                     /\ ScoringRules[v.Rule].Category = category)

\* C21: in CalculateScores no violation of another category lowers a
\* category's score: the anti-fabrication score is the one of the
\* anti_fabrication violations alone, the accuracy score the one of the
\* accuracy violations alone, and the cover letter's domain-claims score the
\* one of the violations of a single catalog category alone.
C21_OtherCategoriesNeverLower ==
    scFn = "CalculateScores" =>
        /\ scOut.AntiFabrication =
              calculateAntiFabricationScore(OfCategory(scIn.antiFab, "anti_fabrication"))
        /\ scOut.Accuracy =
              calculateAccuracyScore(OfCategory(scIn.accuracy, "accuracy"), scIn.metrics,
                                     scIn.datesOK, scIn.titlesOK, scIn.yearsOK)
        /\ \E category \in AllCategories :
              scOut.DomainClaims =
                  calculateDomainClaimsScore(OfCategory(scIn.domain, category))

\* the part of C21 about the two resume scores, which do select by category
C21_ResumeScoresSelectCategory ==
    scFn = "CalculateScores" =>
        /\ scOut.AntiFabrication =
              calculateAntiFabricationScore(OfCategory(scIn.antiFab, "anti_fabrication"))
        /\ scOut.Accuracy =
              calculateAccuracyScore(OfCategory(scIn.accuracy, "accuracy"), scIn.metrics,
                                     scIn.datesOK, scIn.titlesOK, scIn.yearsOK)

\* the critical violations of a list
CriticalOf(violations) == SelectSeq(violations, LAMBDA v : v.Severity = "critical")

\* "Fabrication detected: <rule> - <offending text>"
LessonFor(v) == "Fabrication detected: " \o v.Rule \o " - " \o v.Fabricated

\* the number of generic lessons the scores call for
GenericLessons(scores) ==
    (IF scores.WeakIssues > 0 THEN 1 ELSE 0)
        + (IF scores.DomainViolations # << >> THEN 1 ELSE 0)
        + (IF scores.Overall < 70 THEN 1 ELSE 0)

\* the generic lessons are present exactly when their conditions hold
GenericLessonsExact(scores, lessons) ==
    /\ WeakLesson \in Range(lessons) <=> scores.WeakIssues > 0
    /\ DomainLesson \in Range(lessons) <=> scores.DomainViolations # << >>
    /\ OverallLesson \in Range(lessons) <=> scores.Overall < 70

\* C23: ExtractLessons returns exactly one lesson per critical violation in
\* the scores, naming its rule and offending text, plus one generic lesson
\* for weak-quantification issues, one for cover-letter violations and one
\* for an overall score below 70, each only when its condition holds; with
\* no violations, no issues and an overall score of at least 70 the list is
\* empty.
C23_LessonsExactly ==
    scFn = "ExtractLessons" =>
        LET scores == scOut.Scores
            critical == CriticalOf(scores.AntiFabViolations) \o CriticalOf(scores.DomainViolations)
        IN  /\ \A v \in Range(critical) : LessonFor(v) \in Range(scOut.Lessons)
            /\ Len(scOut.Lessons) = Len(critical) + GenericLessons(scores)
            /\ GenericLessonsExact(scores, scOut.Lessons)
            /\ (scores.AntiFabViolations = << >> /\ scores.DomainViolations = << >>
                   /\ scores.WeakIssues = 0 /\ scores.Overall >= 70) => scOut.Lessons = << >>

\* the part of C23 that holds: the per-violation lessons are those of the
\* critical violations of the resume's anti-fabrication list, in list order,
\* followed by the generic lessons
C23_LessonsOfResumeViolations ==
    scFn = "ExtractLessons" =>
        LET scores == scOut.Scores
            critical == CriticalOf(scores.AntiFabViolations)
        IN  /\ SubSeq(scOut.Lessons, 1, Len(critical)) =
                   [i \in 1..Len(critical) |-> LessonFor(critical[i])]
            /\ Len(scOut.Lessons) = Len(critical) + GenericLessons(scores)
            /\ GenericLessonsExact(scores, scOut.Lessons)
            /\ (scores.AntiFabViolations = << >> /\ scores.DomainViolations = << >>
                   /\ scores.WeakIssues = 0 /\ scores.Overall >= 70) => scOut.Lessons = << >>

\* ------------------------------------------------------------- Fixer claims
\* C5: if ApplyFixes returns an empty appliedFixes list then both returned
\* drafts are identical to the input drafts.
C5_EmptyLabelsMeanUnchanged ==
    (fxCalled /\ fxOut.appliedFixes = << >>) =>
        /\ fxOut.fixedResume = fxIn.resume
        /\ fxOut.fixedCoverLetter = fxIn.cover

\* some violation of either list names a rule containing TEMPORAL
SomeTemporalTrigger(response) ==
    \E v \in Range(response.ResumeViolations) \cup Range(response.CoverLetterViolations) :
        Contains(v.Rule, "TEMPORAL")

\* some violation of either list names a rule containing DOMAIN or an
\* offending text containing Expert
SomeDomainExpertTrigger(response) ==
    \E v \in Range(response.ResumeViolations) \cup Range(response.CoverLetterViolations) :
        (Contains(v.Rule, "DOMAIN") \/ Contains(v.Fabricated, "Expert"))

\* no phrase a pattern of the library matches was rewritten
NotAttempted(patterns, before, after) ==
    /\ Len(after) = Len(before)
    /\ \A i \in 1..Len(before) :
          (\E k \in 1..Len(patterns) : before[i] \in DOMAIN patterns[k].Rewrites)
              => after[i] = before[i]

\* every phrase a pattern of the library matches was rewritten
Attempted(patterns, after) ==
    \A k \in 1..Len(patterns) : ~MatchString(patterns[k], after)

\* C22: ApplyFixes rewrites the temporal phrases of the resume only if some
\* violation's rule contains TEMPORAL, and the positioning phrases of a draft
\* only if some violation's rule contains DOMAIN or its text contains Expert;
\* the generic wording patterns are applied to both drafts in every call, so
\* with no triggering violation each returned draft is the input draft with
\* the generic wording patterns applied and nothing else.
C22_FixesNeedTheirTrigger ==
    fxCalled =>
        /\ ~SomeTemporalTrigger(fxIn.eval) =>
              /\ NotAttempted(buildTemporalImpossibilityPatterns, fxIn.resume, fxOut.fixedResume)
              /\ NotAttempted(buildTemporalImpossibilityPatterns, fxIn.cover, fxOut.fixedCoverLetter)
        /\ ~SomeDomainExpertTrigger(fxIn.eval) =>
              /\ NotAttempted(buildDomainExpertPatterns, fxIn.resume, fxOut.fixedResume)
              /\ NotAttempted(buildDomainExpertPatterns, fxIn.cover, fxOut.fixedCoverLetter)
        /\ Attempted(buildCoverLetterPatterns, fxOut.fixedResume)
        /\ Attempted(buildCoverLetterPatterns, fxOut.fixedCoverLetter)
        /\ (~SomeTemporalTrigger(fxIn.eval) /\ ~SomeDomainExpertTrigger(fxIn.eval)) =>
              /\ fxOut.fixedResume = applyCoverLetterWording(fxIn.resume)
              /\ fxOut.fixedCoverLetter = applyCoverLetterWording(fxIn.cover)
              /\ fxOut.appliedFixes = << >>

\* a call with a violation that triggers nothing, on a resume holding a
\* temporal phrase and a generic phrase and a cover letter holding a
\* positioning phrase: only the generic phrase is rewritten
C22_Witness ==
    /\ fxCalled
    /\ fxIn.eval.ResumeViolations # << >>
    /\ ~SomeTemporalTrigger(fxIn.eval) /\ ~SomeDomainExpertTrigger(fxIn.eval)
    /\ fxIn.resume = <<"25y building AWS", "This is a targeted resume highlighting">>
    /\ fxIn.cover = <<"DeFi Expert", "plain text">>
    /\ fxOut.fixedResume = <<"25y building AWS", "The resume submitted for this role highlights">>
    /\ fxOut.fixedCoverLetter = fxIn.cover

\* ----------------------------------------------------------- Indexer claims
\* the paths of the tree holding a readable, parseable .evaluation.json file
ParseablePaths ==
    {p \in 1..MaxFiles : tree[p].exists /\ ~tree[p].IsDir /\ HasEvaluationSuffix(tree[p].Name)
                         /\ tree[p].readable /\ tree[p].parses}

\* the paths holding an .evaluation.json file that cannot be read or parsed
DamagedPaths ==
    {p \in 1..MaxFiles : tree[p].exists /\ ~tree[p].IsDir /\ HasEvaluationSuffix(tree[p].Name)
                         /\ ~(tree[p].readable /\ tree[p].parses)}

\* C10: Index over a tree holding N parseable .evaluation.json files and any
\* number of unparseable or unreadable ones (the directory walk and the write
\* of the index file meeting no I/O fault) returns count N and no error and
\* writes an index of exactly N entries, one per parseable file.
C10_IndexSkipsDamagedFiles ==
    (idxCalled /\ idxFault = NoIndexFault) =>
        /\ idxOut.err = "nil"
        /\ idxOut.count = Cardinality(ParseablePaths)
        /\ indexFile.exists /\ indexFile.parses
        /\ Len(indexFile.Evaluations) = Cardinality(ParseablePaths)
        /\ {indexFile.Evaluations[i].Path : i \in 1..Len(indexFile.Evaluations)} = ParseablePaths
        /\ \A i \in 1..Len(indexFile.Evaluations) :
              LET e == indexFile.Evaluations[i]
              IN  /\ e.Company = tree[e.Path].eval.Company
                  /\ e.Role = tree[e.Path].eval.Role
                  /\ e.OverallScore = tree[e.Path].eval.Scores.Overall

\* an Index run over one corrupt file, one unreadable file and a valid one
C10_Witness ==
    /\ idxCalled /\ idxFault = NoIndexFault
    /\ \E p \in DamagedPaths : ~tree[p].readable
    /\ \E p \in DamagedPaths : tree[p].readable /\ ~tree[p].parses
    /\ \E p \in ParseablePaths : p > 1 /\ (p - 1) \in DamagedPaths
    /\ idxOut.count = 1 /\ Len(indexFile.Evaluations) = 1

\* the entries of an index file, as a set
IndexEntries(file) == {file.Evaluations[i] : i \in 1..Len(file.Evaluations)}

\* C11: after any sequence of evaluation-file writes, overwrites and
\* deletions, a successful Index run leaves an index whose entries are
\* exactly the projections of the parseable evaluation files now in the
\* tree, one entry per file: nothing survives from the index the run found,
\* the index file is not indexed, and a further run over the unchanged tree
\* writes the same entries.
C11_IndexIsRebuiltFromStorage ==
    (idxCalled /\ idxOut.err = "nil") =>
        /\ indexFile.exists /\ indexFile.parses
        /\ IndexEntries(indexFile) = {IndexedEvaluation(p, tree[p].eval) : p \in ParseablePaths}
        /\ Len(indexFile.Evaluations) = Cardinality(ParseablePaths)
        /\ \A e \in IndexEntries(indexFile) : e.Path \in 1..MaxFiles
        /\ Index(tree, indexFile, 0, "none").indexFile = indexFile

\* a successful run that found an index holding an entry for a file since
\* deleted and an entry for a file since overwritten with another
\* evaluation, and that left a non-empty index
C11_Witness ==
    /\ idxCalled /\ idxOut.err = "nil"
    /\ \E e \in IndexEntries(idxPrev) : ~tree[e.Path].exists
    /\ \E e \in IndexEntries(idxPrev) :
          /\ e.Path \in ParseablePaths
          /\ e # IndexedEvaluation(e.Path, tree[e.Path].eval)
    /\ indexFile.Evaluations # << >>

C2_PersistedOnlyAfterSuccessfulCall ==
    /\ tree[AttemptPath].exists =>
          /\ lastCall.kind = "ok"
          /\ tree[AttemptPath].parses
          /\ tree[AttemptPath].eval.Scores.AntiFabViolations = lastCall.resp.ResumeViolations
          /\ tree[AttemptPath].eval.Scores.DomainViolations = lastCall.resp.CoverLetterViolations
    /\ lastCall.kind \in DetectorFailures =>
          /\ ~tree[AttemptPath].exists
          /\ indexRuns = 0

\* C3: when Evaluate#1 reports no resume and no cover-letter violation, Fix
\* and Evaluate#2 do not run: the detector is called once, the drafts are
\* not rewritten, and the final evaluation is the result of Evaluate#1.
C3_CleanFirstEvaluationIsFinal ==
    firstClean =>
        /\ pc \in {"save", "render", "done"}
        /\ detectorCalls = 1
        /\ ~fixOut.ran /\ draftWrites = 0
        /\ resumeMD = lastCall.resume /\ coverMD = lastCall.cover
        /\ finalEval = lastCall.resp /\ evalErr = "nil"
        /\ tree[AttemptPath].parses =>
              /\ tree[AttemptPath].eval.Scores.AntiFabViolations = << >>
              /\ tree[AttemptPath].eval.Scores.DomainViolations = << >>

\* a clean Evaluate#1 under auto-fix, of a resume whose wording the Fixer
\* would have rewritten, persisted at the end of the attempt
C3_Witness ==
    /\ firstClean /\ autoFix /\ pc = "done"
    /\ resumeMD = <<"This is a targeted resume highlighting">>
    /\ tree[AttemptPath].parses /\ indexRuns = 1

\* C4 as stated: Evaluate#2 reads exactly the drafts ApplyFixes returned,
\* whatever ApplyFixes changed.
C4_SecondEvaluationReadsFixerOutput ==
    detectorCalls = 2 =>
        /\ lastCall.resume = fixOut.fixedResume
        /\ lastCall.cover = fixOut.fixedCoverLetter

\* C9 as stated: the scores persisted for the final detector result are the
\* scores Scorer.CalculateScores gives for it, the overall score included.
C9_PersistedScoresAreScorerScores ==
    (tree[AttemptPath].parses /\ lastCall.kind = "ok" /\ finalEval = lastCall.resp) =>
        LET s == CalculateScores(finalEval.ResumeViolations, finalEval.WeakQuantifications,
                                 finalEval.AccuracyViolations, finalEval.CoverLetterViolations,
                                 finalEval.VerifiedMetrics, finalEval.CompanyDatesCorrect,
                                 finalEval.RoleTitlesCorrect, finalEval.YearsExpCorrect)
            p == tree[AttemptPath].eval.Scores
        IN  /\ p.Overall = s.Overall
            /\ p.ResumeTotal = s.ResumeTotal
            /\ p.CoverLetterTotal = s.CoverLetterTotal
            /\ p.AntiFabrication = s.AntiFabrication
            /\ p.WeakQuantifications = s.WeakQuantifications
            /\ p.Accuracy = s.Accuracy
            /\ p.DomainClaims = s.DomainClaims

\* C24: the lessons of the persisted Evaluation are the lessons the Scorer
\* extracts from its scores together with the lessons the detector supplied;
\* in particular every critical resume violation of the final result has its
\* extracted lesson among them, whatever the detector supplied.
C24_PersistedLessonsAreMerged ==
    (tree[AttemptPath].parses /\ lastCall.kind = "ok" /\ finalEval = lastCall.resp) =>
        LET e == tree[AttemptPath].eval
        IN  /\ Range(e.Lessons) =
                   Range(ExtractLessons(e.Scores)) \cup Range(finalEval.LessonsLearned)
            /\ \A v \in Range(finalEval.ResumeViolations) :
                   v.Severity = "critical" => LessonFor(v) \in Range(e.Lessons)

\* what does hold: the persisted lessons are the detector's, unchanged
C24_PersistedLessonsAreDetectorLessons ==
    (tree[AttemptPath].parses /\ lastCall.kind = "ok" /\ finalEval = lastCall.resp) =>
        tree[AttemptPath].eval.Lessons = finalEval.LessonsLearned

\* Evaluate#2 succeeded
SecondEvaluationSucceeded == detectorCalls = 2 /\ lastCall.kind = "ok"

\* the detector is called at most twice, and a successful Evaluate#2 is the
\* final evaluation, handed to persistence with its violation lists
C25_Bounded ==
    /\ detectorCalls <= 2
    /\ pc = "fix" => ~fixOut.ran
    /\ SecondEvaluationSucceeded =>
          /\ pc \in {"save", "render", "done"}
          /\ finalEval = lastCall.resp /\ evalErr = "nil"
          /\ tree[AttemptPath].parses =>
                /\ tree[AttemptPath].eval.Scores.AntiFabViolations = lastCall.resp.ResumeViolations
                /\ tree[AttemptPath].eval.Scores.DomainViolations = lastCall.resp.CoverLetterViolations

\* once Fix has run, no step runs it again or rewrites a draft
C25_FixRunsOnce ==
    fixOut.ran =>
        /\ fixOut' = fixOut /\ draftWrites' = draftWrites
        /\ resumeMD' = resumeMD /\ coverMD' = coverMD
        /\ pc' # "fix"

\* the position of a step in runGenerate
StepRank ==
    [ p \in {"idle", "retrieve", "generate", "evaluate", "fix", "evaluate2", "save", "render", "done"} |->
        CASE p = "idle" -> 0 [] p = "retrieve" -> 1 [] p = "generate" -> 2
          [] p = "evaluate" -> 3 [] p = "fix" -> 4 [] p = "evaluate2" -> 5
          [] p = "save" -> 6 [] p = "render" -> 7 [] OTHER -> 8 ]

\* every step moves the attempt forward, and the step after a successful
\* Evaluate#2 is persistence
C25_StepsAdvance ==
    /\ StepRank[pc'] > StepRank[pc]
    /\ (pc = "evaluate2" /\ lastCall'.kind = "ok" /\ detectorCalls' = 2) =>
          pc' = "save" /\ finalEval' = lastCall'.resp

\* an attempt that has not returned can take its next step
C25_NeverBlocks == pc # "done" => ENABLED AttemptNext

\* C25: the evaluate-fix loop is bounded and does not wait for the
\* violations to disappear: the detector is called at most twice, Fix runs
\* at most once, every step moves the attempt forward and no step before
\* the return is blocked, and a successful Evaluate#2 is followed by
\* persistence with the violation lists of Evaluate#2, empty or not.
C25_LoopIsBounded ==
    /\ [](C25_Bounded /\ C25_NeverBlocks)
    /\ [][C25_FixRunsOnce /\ C25_StepsAdvance]_vars

\* Evaluate#2 succeeded with a violation left, and the attempt ended with
\* that violation persisted
C25_Witness ==
    /\ pc = "done" /\ SecondEvaluationSucceeded /\ fixOut.ran
    /\ lastCall.resp.ResumeViolations # << >>
    /\ tree[AttemptPath].parses
    /\ tree[AttemptPath].eval.Scores.AntiFabViolations = lastCall.resp.ResumeViolations

\* Evaluate#1 succeeded and reported no resume and no cover-letter violation
FirstReportsNoDraftViolation ==
    /\ autoFix /\ detectorCalls = 1 /\ lastCall.kind = "ok"
    /\ lastCall.resp.ResumeViolations = << >>
    /\ lastCall.resp.CoverLetterViolations = << >>

\* after a successful Evaluate#1 Fix is next exactly when one of the two
\* lists is not empty
C29_DecisionReadsTwoLists ==
    (pc = "evaluate" /\ autoFix /\ lastCall'.kind = "ok") =>
        /\ pc' \in {"fix", "save"}
        /\ pc' = "fix" <=> (\/ lastCall'.resp.ResumeViolations # << >>
                            \/ lastCall'.resp.CoverLetterViolations # << >>)

\* with accuracy violations or weak issues only, Fix and Evaluate#2 are
\* skipped, and the persisted scores are those of the same result without
\* its accuracy violations
C29_AccuracyOnlySkipsFix ==
    FirstReportsNoDraftViolation =>
        /\ pc \in {"save", "render", "done"}
        /\ ~fixOut.ran /\ draftWrites = 0
        /\ finalEval = lastCall.resp
        /\ tree[AttemptPath].parses =>
              tree[AttemptPath].eval.Scores =
                  BuildEvaluation(AttemptCompany, AttemptRole,
                                  [finalEval EXCEPT !.AccuracyViolations = << >>]).Scores

C30_DraftsChangeTogether ==
    fixOut.ran =>
        \/ resumeMD = fixOut.fixedResume /\ coverMD = fixOut.fixedCoverLetter
        \/ detectorCalls = 1 /\ resumeMD = lastCall.resume /\ coverMD = lastCall.cover
        \/ detectorCalls = 2 /\ draftWrites = 0

\* what does hold: when neither write failed, the drafts are both rewritten
\* or, no fix having been labelled, both left as they were
C30_DraftsChangeTogetherWithoutFault ==
    (fixOut.ran /\ evalErr # "fix") =>
        \/ resumeMD = fixOut.fixedResume /\ coverMD = fixOut.fixedCoverLetter /\ draftWrites = 2
        \/ fixOut.appliedFixes = << >> /\ draftWrites = 0

\* the errors saveEvaluationToRAG returns
SaveErrors ==
    {"failed to write evaluation file", "failed to walk applications directory", "failed to write index"}

\* C19: a failure of an auxiliary step does not abort the attempt.  When
\* retrieveRAGContext fails, runGenerationPhase still runs and is given the
\* empty RAG context; when writing the evaluation file or rebuilding the
\* index fails, the attempt goes on to Phase 5 and what runGenerate returns
\* is not that failure.
C19_AuxiliaryFailuresDoNotAbort ==
    /\ (retrieveErr # "nil" /\ pc # "generate") =>
          /\ genCall.ran
          /\ genCall.ragContext = << >>
    /\ ragErr # "nil" =>
          /\ ragErr \in SaveErrors
          /\ pc \in {"render", "done"}
          /\ pc = "done" => result \notin SaveErrors

\* retrieval failed on the index an earlier attempt left, generation ran,
\* the index rebuild failed, and the attempt ended rendered and without error
C19_Witness ==
    /\ pc = "done" /\ retrieveErr = "failed to load index"
    /\ genCall.ran /\ resumeMD # << >>
    /\ ragErr = "failed to write index"
    /\ rendered /\ result = "nil"

\* ---------------------------------------------------------- Retriever claims
\* C12: LoadIndex over a root with no index file returns an index with no
\* evaluations and no error, and Retrieve over such a root returns no error
\* and SimilarApplications = 0; LoadIndex returns an error only when the
\* index file exists and cannot be read or parsed.
C12_MissingIndexIsEmpty ==
    /\ (rtFn = "LoadIndex" /\ ~indexFile.exists) =>
          rtOut.err = "nil" /\ rtOut.Evaluations = << >>
    /\ (rtFn = "LoadIndex" /\ rtOut.err # "nil") =>
          indexFile.exists /\ (rtIn.readFault \/ ~indexFile.parses)
    /\ (rtFn = "Retrieve" /\ ~indexFile.exists) =>
          rtOut.err = "nil" /\ rtOut.ragCtx.SimilarApplications = 0

\* Retrieve over a root from which the index file was deleted
C12_Witness ==
    /\ rtFn = "Retrieve" /\ ~indexFile.exists
    /\ rtOut.err = "nil" /\ rtOut.ragCtx = ZeroRAGContext
    /\ rtOut.formatted = NoDataText

\* C13 as stated, in its particular case: a title whose only keyword is
\* "director" is classified Director.
C13_DirectorTitleIsDirector ==
    (rtFn = "inferRoleLevel" /\ rtIn.role = "Director of Engineering") => rtOut.level = "Director"

\* the similarity of an index entry for a role level, in tenths
ClaimedSimilarity(e, level) ==
    (IF e.RoleLevel = level THEN 5 ELSE 0) + (IF e.OverallScore < 80 THEN 3 ELSE 0)
    + (IF e.CriticalViolations >= 1 THEN 4 ELSE 0)

\* C14: Retrieve's SimilarApplications is the number of indexed records
\* whose similarity is strictly greater than 0.3, the similarity being 0.5
\* for a role level equal to the query's inferred level, plus 0.3 for an
\* overall score below 80, plus 0.4 for at least one critical violation.
C14_SimilarCountsRecordsAboveThreshold ==
    (rtFn = "Retrieve" /\ rtOut.err = "nil") =>
        rtOut.ragCtx.SimilarApplications =
            Cardinality({i \in 1..Len(indexFile.Evaluations) :
                            indexFile.exists /\ indexFile.parses
                            /\ ClaimedSimilarity(indexFile.Evaluations[i], rtOut.level) > 3})

\* a query at CTO level over an index holding the record of similarity 1.2
\* (level match, score 65, 2 critical violations), a record of similarity
\* exactly 0.3 and a record of similarity 0
C14_Witness ==
    /\ rtFn = "Retrieve" /\ rtOut.err = "nil" /\ rtOut.level = "CTO"
    /\ \E i \in 1..Len(indexFile.Evaluations) :
          LET e == indexFile.Evaluations[i]
          IN  e.RoleLevel = "CTO" /\ e.OverallScore = 65 /\ e.CriticalViolations = 2
    /\ \E i \in 1..Len(indexFile.Evaluations) :
          ClaimedSimilarity(indexFile.Evaluations[i], rtOut.level) = 3
    /\ \E i \in 1..Len(indexFile.Evaluations) :
          ClaimedSimilarity(indexFile.Evaluations[i], rtOut.level) = 0
    /\ rtOut.ragCtx.SimilarApplications = 1

\* the similar records of the Retrieve call in progress
SimilarRecords ==
    IF indexFile.exists /\ indexFile.parses /\ ~rtIn.readFault
    THEN SelectSeq(indexFile.Evaluations, LAMBDA e : ClaimedSimilarity(e, rtOut.level) > 3)
    ELSE << >>

\* the number of similar records whose RAG text holds the token
RecordsHolding(token) ==
    Cardinality({i \in 1..Len(SimilarRecords) :
                    RAGContextContains(SimilarRecords[i].RAGContext, token)})

\* C15: for each of the four rule-name tokens, CommonViolations holds
\* exactly one entry "<label> (occurred N times)" when N >= 1 similar
\* records hold the token in their RAG text, N being the number of such
\* records and at most the number of similar records, and no entry for a
\* token no similar record holds; it holds no other entry.
C15_OneEntryPerTokenSeen ==
    (rtFn = "Retrieve" /\ rtOut.err = "nil") =>
        LET entries == rtOut.ragCtx.CommonViolations
        IN  /\ \A t \in DOMAIN ViolationLabels :
                  LET at == {i \in 1..Len(entries) : entries[i].Label = ViolationLabels[t]}
                  IN  IF RecordsHolding(t) >= 1
                      THEN /\ Cardinality(at) = 1
                           /\ \A i \in at : entries[i].Count = RecordsHolding(t)
                           /\ RecordsHolding(t) <= rtOut.ragCtx.SimilarApplications
                      ELSE at = {}
            /\ \A i \in 1..Len(entries) :
                  \E t \in DOMAIN ViolationLabels : entries[i].Label = ViolationLabels[t]

\* two similar records hold the number token, one of them on two lines, and
\* a third similar record holds none: one entry counting 2
C15_Witness ==
    /\ rtFn = "Retrieve" /\ rtOut.err = "nil"
    /\ rtOut.ragCtx.SimilarApplications = 3
    /\ RecordsHolding("FORBIDDEN_NUMBER_FABRICATION") = 2
    /\ RecordsHolding("FORBIDDEN_PATTERN_MATCHING") = 0
    /\ \E i \in 1..Len(rtOut.ragCtx.CommonViolations) :
          /\ rtOut.ragCtx.CommonViolations[i].Label = ViolationLabels["FORBIDDEN_NUMBER_FABRICATION"]
          /\ rtOut.ragCtx.CommonViolations[i].Count = 2

\* C16: FormatForPrompt returns the text "No previous evaluation data
\* available." whenever SimilarApplications is 0, whatever the three lists
\* hold, and never returns it when SimilarApplications is greater than 0.
C16_NoDataTextIffNoSimilar ==
    /\ rtFn = "FormatForPrompt" =>
          ((rtIn.ctx.SimilarApplications = 0) <=> (rtOut.formatted = NoDataText))
    /\ (rtFn = "Retrieve" /\ rtOut.err = "nil") =>
          ((rtOut.ragCtx.SimilarApplications = 0) <=> (rtOut.formatted = NoDataText))

\* a context with lessons, violations and patterns but a count of 0
C16_Witness ==
    /\ rtFn = "FormatForPrompt"
    /\ rtIn.ctx.SimilarApplications = 0
    /\ rtIn.ctx.RelevantLessons # << >>
    /\ rtIn.ctx.CommonViolations # << >>
    /\ rtIn.ctx.SuccessfulPatterns # << >>
    /\ rtOut.formatted = NoDataText

\* C17 as stated: two runs of Retrieve and FormatForPrompt over the same
\* index with the same query yield the same text.
C17_RetrievalIsDeterministic ==
    rtAgain.ran => rtAgain.formatted = rtOut.formatted


\* the records of the index file a Retrieve call reads
ReadRecords ==
    IF indexFile.exists /\ indexFile.parses /\ ~rtIn.readFault THEN indexFile.Evaluations ELSE << >>

\* the contexts Retrieve builds from the records it found similar
Retrieved(similar) ==
    {[c EXCEPT !.SimilarApplications = Len(similar)] : c \in buildRAGContext(similar)}

\* the overall scores on both sides of the test "OverallScore < 80"
OverallScores == {0, 79, 80, 100}

\* C28: a record is similar if and only if its role level is the query's or
\* it has at least one critical violation: a record that only has an
\* overall score below 80 is left out, and no overall score in place of the
\* record's changes whether the record is similar.
C28_SimilarIffLevelOrCritical ==
    (rtFn = "Retrieve" /\ rtOut.err = "nil") =>
        LET picked == SelectSeq(ReadRecords,
                          LAMBDA e : e.RoleLevel = rtOut.level \/ e.CriticalViolations >= 1)
        IN  /\ SimilarEvaluations(ReadRecords, rtOut.level) = picked
            /\ rtOut.ragCtx.SimilarApplications = Len(picked)
            /\ rtOut.ragCtx \in Retrieved(picked)
            /\ \A i \in 1..Len(ReadRecords) : \A s \in OverallScores :
                  LET e == ReadRecords[i]
                      f == [e EXCEPT !.OverallScore = s]
                  IN  SimilarEvaluations(<<f>>, rtOut.level) = << >>
                          <=> SimilarEvaluations(<<e>>, rtOut.level) = << >>

\* a query over an index with a record of another level, overall 79 and no
\* critical violation (left out) and a record of another level, overall 85
\* and one critical violation (the only similar one)
C28_Witness ==
    /\ rtFn = "Retrieve" /\ rtOut.err = "nil"
    /\ \E i \in 1..Len(ReadRecords) :
          LET e == ReadRecords[i]
          IN  e.RoleLevel # rtOut.level /\ e.OverallScore = 79 /\ e.CriticalViolations = 0
    /\ \E i \in 1..Len(ReadRecords) :
          LET e == ReadRecords[i]
          IN  e.RoleLevel # rtOut.level /\ e.OverallScore = 85 /\ e.CriticalViolations = 1
    /\ rtOut.ragCtx.SimilarApplications = 1

\* -------------------------------------------------------- Sequence claims
\* the evaluation files of the tree that hold an Evaluation record
StoredRecords ==
    {p \in 1..MaxFiles : tree[p].exists /\ HasEvaluationSuffix(tree[p].Name) /\ tree[p].parses}

\* the attempts of the sequence whose evaluation file was written
PersistedRuns == {i \in 1..Len(runs) : runs[i].wrote}

\* C18: every attempt that reached persistence has its own Evaluation
\* record: the stored records are as many as the attempts whose evaluation
\* was written, none having been overwritten by a later attempt
C18_OneRecordPerAttempt == Cardinality(StoredRecords) = Cardinality(PersistedRuns)

\* ---------------------------------------------------------- Client claims
\* the first text block of the response parses as JSON once the fence and
\* the commentary are stripped
ParsesAfterStripping(exchange) ==
    /\ Len(exchange.content) > 0
    /\ ~stripMarkdownCodeFences(exchange.content[1]).panic
    /\ Unmarshal(stripMarkdownCodeFences(exchange.content[1]).cleaned) # "syntax"

\* the cases in which a call has to fail: the context cancelled before the
\* response arrived, a status other than 200, an empty content list, a
\* first text block that is not parseable JSON after fence stripping
MustFail(exchange) ==
    \/ exchange.fault = "cancelled"
    \/ exchange.fault = "none" /\ exchange.status # 200
    \/ exchange.fault = "none" /\ exchange.envelope /\ Len(exchange.content) = 0
    \/ exchange.fault = "none" /\ exchange.envelope /\ ~ParsesAfterStripping(exchange)

\* C20: Analyze, Generate, GenerateGeneral and Evaluate return an error, and
\* no response presented as successful, whenever the status is not 200, the
\* content list is empty, the first text block is not parseable JSON after
\* fence stripping, or the context is cancelled before the response arrives.
C20_FailedCallReturnsError ==
    (clFn # "none" /\ MustFail(clIn)) =>
        /\ clOut.returned
        /\ clOut.err # "nil"
        /\ ~clOut.decoded

\* the call in progress got a response whose first text block it strips
Strips == clFn # "none" /\ clIn.fault = "none" /\ clIn.status = 200 /\ clIn.envelope /\ Len(clIn.content) > 0

\* C27: stripMarkdownCodeFences is total: on every text, one that starts
\* with the json fence and has no newline after it or only white space
\* after it included, it returns a text and never slices with a start past
\* the end, so the call that strips returns.
C27_StripIsTotal ==
    Strips =>
        /\ ~stripMarkdownCodeFences(clIn.content[1]).panic
        /\ clOut.returned

\* what does hold: on a text that does not open a fenced block after the
\* commentary is cut, or whose fence is followed by a newline and by
\* something other than white space, the function returns
C27_StripReturnsOutsideTheTwoCases ==
    Strips =>
        LET text == clIn.content[1]
            at == FirstIn(text, {Fence})
            rest == SubSeq(text, at + 1, Len(text))
            newline == FirstIn(rest, {Newline})
            body == SubSeq(rest, newline + 1, Len(rest))
        IN  (\/ at = 0
             \/ rest = << >>
             \/ /\ newline > 0
                /\ \E i \in 1..Len(body) : body[i] \notin WhitespacePieces \cup {FenceEnd})
                => ~stripMarkdownCodeFences(text).panic

\* ---------------------------------------------------------- spinner claims
\* the goroutines that may still write to the terminal
Writing == {k \in 1..Len(spRoutines) : spRoutines[k].at # "return"}

\* between calls a stopped spinner has no goroutine that may still write,
\* an active one has exactly one, and no write came after a stopSpinner
SpinnerQuiet ==
    /\ Cardinality(Writing) <= 1
    /\ spLate = FALSE
    /\ spCaller = "idle" => (Cardinality(Writing) = (IF spActive THEN 1 ELSE 0))

\* a stopSpinner on a spinner that is not active returns at once without
\* touching a channel, and a start on an active one launches nothing
SpinnerNoOps ==
    (spCaller = "idle" /\ spCalls' = spCalls + 1) =>
        /\ (spCaller' = "sendStop") => spActive
        /\ (spCaller' = "go") => ~spActive
        /\ (spCaller' = "idle") => (spLast'.atOnce /\ UNCHANGED <<spActive, spRoutines>>)

\* C26: the spinner goroutine does not outlive its step.  For every
\* sequence of start and stopSpinner calls of the sequential pipeline,
\* stopSpinner returns only when the goroutine has made its last write and
\* has only its return left, stopSpinner on a spinner that is not active
\* returns at once, a start on an active spinner launches no second
\* goroutine, and every call returns (no sequence deadlocks).
C26_SpinnerEndsWithItsStep ==
    /\ []SpinnerQuiet
    /\ [][SpinnerNoOps]_vars
    /\ (spCaller # "idle") ~> (spCaller = "idle")

\* a second start-stop round on the same spinner has just ended, after a
\* call that returned at once, while the goroutine of that round has its
\* return left
C26_Witness ==
    /\ spCalls = MaxSpinnerCalls /\ spCaller = "idle" /\ ~spActive
    /\ spLast = [op |-> "stopSpinner", atOnce |-> FALSE]
    /\ Len(spRoutines) = 1 /\ spRoutines[1].at = "return" /\ spRoutines[1].i = 3

=========================================================================
